---- MODULE Spec2Model ----
(***************************************************************************)
(* Smart Campus Attendance System: the class-session state machine, the    *)
(* QR token functions and the attendance check-in handlers, modelled from  *)
(* backend/app/models/session.py, backend/app/models/attendance.py,        *)
(* backend/app/utils/security.py, backend/app/services/face_service.py and *)
(* backend/api/attendance.py, backend/api/lecturers.py.                    *)
(*                                                                         *)
(* Time is counted in seconds since midnight of the session's day.  One    *)
(* class session (SessionId) is followed through its life; every request   *)
(* handler is one atomic action (one database transaction).                *)
(***************************************************************************)
EXTENDS Integers, Sequences, FiniteSets, TLC

\* ------------------------------------------------------------------ bounds
\* QR tokens the session may mint in one behaviour (secrets.token_urlsafe
\* nonces are numbered in order of issue).
MaxTokens == 2
\* Successful matches one stored face encoding may collect.
MaxMatches == 1
\* Requests served concurrently in one behaviour.
MaxRequests == 3
\* Photos one student uploads in a run of the enrollment specification.
MaxUploads == 3
\* Recognitions in a run of the match-statistics specification.
MaxStats == 3

\* --------------------------------------------------------- program constants
QR_CODE_EXPIRY_MINUTES == 15
ATTENDANCE_CHECK_IN_WINDOW_BEFORE == 10
ATTENDANCE_CHECK_IN_WINDOW_AFTER == 15
LATE_ARRIVAL_THRESHOLD == 5
\* FACE_RECOGNITION_TOLERANCE = 0.6, in hundredths of a distance unit.
FACE_RECOGNITION_TOLERANCE == 60
\* MIN_FACE_SIZE, in pixels.
MIN_FACE_SIZE == 100
MAX_ENROLLMENT_PHOTOS == 10
MIN_ENROLLMENT_PHOTOS == 5
\* enroll_student_face: "if distance < 0.3", in hundredths.
DuplicateDistance == 30
\* enroll_student_face: "quality_score > 0.8", in hundredths.
PrimaryQuality == 80
SecondsPerMinute == 60
SecondsPerHour == 3600

\* ------------------------------------------------------------ the population
\* The student whose attendance is followed.
Student1 == 1
\* The lecturer who owns the session; requests come from the owner.
OwnerLecturer == 1
Lecturers == {OwnerLecturer}
\* The session under study; requests name it.
SessionId == 1
SessionIds == {SessionId}
\* ClassSession.start_time: the class is scheduled for 09:00:00.
ScheduledStart == 9 * SecondsPerHour

\* "no value" of a nullable DateTime / Float / Integer column.
NoTime == 0 - 1

\* Clock readings (datetime.utcnow()) at which requests arrive: 08:49:00,
\* before the check-in window; 09:00:00, on time; 09:06:00, late; 09:15:01,
\* after the window.
ClockReadings ==
    { ScheduledStart - 11 * SecondsPerMinute,
      ScheduledStart,
      ScheduledStart + 6 * SecondsPerMinute,
      ScheduledStart + 15 * SecondsPerMinute + 1 }
FirstReading == ScheduledStart - 11 * SecondsPerMinute

VARIABLES
    now,                 \* datetime.utcnow()
    session,             \* the class_sessions row SessionId
    attendance_records,  \* the attendance_records table, in insertion order
    face_encodings,      \* the face_encodings table, in insertion order
    students,            \* the students table: students[s].is_face_enrolled
    issued,              \* the QR strings the session minted: how many, and
                         \* which of them was the last a refresh minted
    result,              \* the response of the last request
    probe,               \* input of a pure function under test
    verdict,             \* its output
    transactions         \* the requests served concurrently, in order of
                         \* arrival: for each what it has read and where
                         \* its handler stands

vars == <<now, session, attendance_records, face_encodings, students,
          issued, result, probe, verdict, transactions>>

\* ---------------------------------------------------------------- strings
\* A string is a sequence of atoms; ":" is the atom str.split(":") cuts at.
RECURSIVE SplitFrom(_, _, _)
SplitFrom(s, i, cur) ==
    IF i > Len(s) THEN <<cur>>
    ELSE IF s[i] = ":" THEN <<cur>> \o SplitFrom(s, i + 1, <<>>)
    ELSE SplitFrom(s, i + 1, Append(cur, s[i]))

\* str.split(":")
Split(s) == SplitFrom(s, 1, <<>>)

\* The decimal numerals the model needs.
Numerals == 0 .. 59
\* str(n) / f"{n}"
Str(n) == ToString(n)
IsNumeral(a) == \E n \in Numerals : Str(n) = a
\* int(a) of a numeral
IntOf(a) == CHOOSE n \in Numerals : Str(n) = a

\* datetime.isoformat(): "YYYY-MM-DDTHH:MM:SS"
isoformat(t) ==
    << "2024-01-01", "T", Str(t \div SecondsPerHour), ":",
       Str((t \div SecondsPerMinute) % 60), ":", Str(t % SecondsPerMinute) >>

\* datetime.fromisoformat() on a string without ":" accepts a date and a date
\* with hours; anything else raises ValueError.
fromisoformat_ok(s) ==
    \/ s = << "2024-01-01" >>
    \/ /\ Len(s) = 3
       /\ s[1] = "2024-01-01"
       /\ s[2] = "T"
       /\ IsNumeral(s[3])
       /\ IntOf(s[3]) < 24
fromisoformat(s) ==
    IF Len(s) = 3 THEN IntOf(s[3]) * SecondsPerHour ELSE 0

\* ------------------------------------------------------------ token cipher
\* A token string is [enc, text]: enc says it is a Fernet ciphertext made
\* with SECRET_KEY, text is the plaintext (of the ciphertext, or the string
\* itself when it is no ciphertext).
encrypt_data(data) == [enc |-> TRUE, text |-> data]
\* Fernet.decrypt raises InvalidToken on anything it did not encrypt.
decrypt_ok(token) == token.enc
decrypt_data(token) == token.text

\* generate_qr_token(session_id) at time t with nonce n
generate_qr_token(session_id, t, n) ==
    encrypt_data(<<Str(session_id), ":">> \o isoformat(t) \o <<":", "n" \o Str(n)>>)

\* A verification that takes the session's own QR string
\* "session:{id}:token:{nonce}" as it is, without decrypting.
verify_qr_token_plain(token, session_id, expiry_minutes, t) ==
    LET parts == Split(token.text) IN
    /\ ~token.enc
    /\ Len(parts) = 4
    /\ parts[1] = <<"session">>
    /\ parts[2] = <<Str(session_id)>>

\* verify_qr_token(token, session_id, expiry_minutes) evaluated at time t
verify_qr_token(token, session_id, expiry_minutes, t) ==
    IF ~decrypt_ok(token) THEN FALSE
    ELSE LET parts == Split(decrypt_data(token)) IN
         IF Len(parts) # 3 THEN FALSE
         ELSE IF ~(Len(parts[1]) = 1 /\ IsNumeral(parts[1][1])) THEN FALSE
         ELSE IF IntOf(parts[1][1]) # session_id THEN FALSE
         ELSE IF ~fromisoformat_ok(parts[2]) THEN FALSE
         ELSE t <= fromisoformat(parts[2]) + expiry_minutes * SecondsPerMinute

\* ----------------------------------------------------------- ClassSession
SessionStatus == {"scheduled", "in_progress", "completed", "cancelled", "postponed"}

\* can_check_in with the end of the window not compared.
can_check_in_open_ended(s, t) ==
    IF ~s.attendance_enabled \/ s.status # "in_progress" THEN FALSE
    ELSE IF s.check_in_started_at # NoTime /\ s.check_in_ended_at # NoTime
         THEN s.check_in_started_at <= t
         ELSE TRUE

\* ClassSession.can_check_in at time t
can_check_in(s, t) ==
    IF ~s.attendance_enabled \/ s.status # "in_progress" THEN FALSE
    ELSE IF s.check_in_started_at # NoTime /\ s.check_in_ended_at # NoTime
         THEN s.check_in_started_at <= t /\ t <= s.check_in_ended_at
         ELSE TRUE

\* ClassSession.is_qr_code_valid at time t
is_qr_code_valid(s, t) ==
    IF s.qr_code_data = <<>> \/ s.qr_code_expires_at = NoTime THEN FALSE
    ELSE t < s.qr_code_expires_at

\* A start that takes the two window lengths the other way round.
start_session_swapped(s, before, after) ==
    [s EXCEPT !.status = "in_progress",
              !.check_in_started_at = ScheduledStart - after * SecondsPerMinute,
              !.check_in_ended_at = ScheduledStart + before * SecondsPerMinute]

\* ClassSession.start_session(check_in_window_before, check_in_window_after)
ClassSession_start_session(s, before, after) ==
    [s EXCEPT !.status = "in_progress",
              !.check_in_started_at = ScheduledStart - before * SecondsPerMinute,
              !.check_in_ended_at = ScheduledStart + after * SecondsPerMinute]

\* ClassSession.end_session() at time t
ClassSession_end_session(s, t) ==
    [s EXCEPT !.status = "completed", !.check_in_ended_at = t]

\* ClassSession.cancel_session(reason)
ClassSession_cancel_session(s) == [s EXCEPT !.status = "cancelled"]

\* ClassSession.postpone_session(new_datetime, reason)
ClassSession_postpone_session(s) == [s EXCEPT !.status = "postponed"]

\* The string ClassSession.generate_qr_code builds: f"session:{id}:token:{token}"
qr_data(n) ==
    [enc |-> FALSE,
     text |-> <<"session", ":", Str(SessionId), ":", "token", ":", "n" \o Str(n)>>]

\* ClassSession.generate_qr_code(expiry_minutes) at time t with nonce n
ClassSession_generate_qr_code(s, expiry_minutes, t, n) ==
    [s EXCEPT !.qr_code_data = <<qr_data(n)>>,
              !.qr_code_generated_at = t,
              !.qr_code_expires_at = t + expiry_minutes * SecondsPerMinute]

\* ------------------------------------------------------- AttendanceRecord
AttendanceStatus == {"present", "late", "absent", "excused"}
CheckInMethod == {"face_recognition", "qr_code", "manual"}
\* The override_reason a lecturer sends; "" is the column's NULL.
Reasons == {"sick note"}
\* A rational p/q is <<p, q>>; <<>> is None.
NoLecturer == 0

\* is_present with the late status forgotten.
is_present_without_late(r) == r.status = "present"

\* AttendanceRecord.is_present
is_present(r) == r.status \in {"present", "late"}

\* Python truthiness of an Optional[float]: None and 0.0 are falsy.
Truthy(c) == c # <<>> /\ c[1] # 0

\* A lookup that never finds the row.
first_record_never(recs, student) == 0

\* The index of the first row of (SessionId, student), 0 when there is none:
\* db.query(AttendanceRecord).filter(session_id, student_id).first()
first_record(recs, student) ==
    IF \E i \in 1 .. Len(recs) : recs[i].student_id = student
    THEN CHOOSE i \in 1 .. Len(recs) :
            /\ recs[i].student_id = student
            /\ \A j \in 1 .. (i - 1) : recs[j].student_id # student
    ELSE 0

\* A mark_present that leaves the status as it was.
mark_present_keep_status(r, method, t, confidence) ==
    [r EXCEPT !.check_in_method = method, !.check_in_time = t]

\* AttendanceRecord.mark_present(method, check_in_time, confidence)
AttendanceRecord_mark_present(r, method, t, confidence) ==
    [r EXCEPT !.status = "present",
              !.check_in_method = method,
              !.check_in_time = t,
              !.face_confidence_score =
                  IF Truthy(confidence) THEN confidence ELSE @]

\* A late mark that writes the status, method and time and leaves the
\* lateness fields as they were.
mark_late_keep_lateness(r, minutes_late, method, t, confidence) ==
    [r EXCEPT !.status = "late", !.check_in_method = method,
              !.check_in_time = t]

\* AttendanceRecord.mark_late(minutes_late, method, check_in_time, confidence)
AttendanceRecord_mark_late(r, minutes_late, method, t, confidence) ==
    [r EXCEPT !.status = "late",
              !.is_late = TRUE,
              !.minutes_late = minutes_late,
              !.check_in_method = method,
              !.check_in_time = t,
              !.face_confidence_score =
                  IF Truthy(confidence) THEN confidence ELSE @]

\* An override that writes the status and stamps nothing.
manual_override_status_only(r, new_status, lecturer_id, reason) ==
    [r EXCEPT !.status = new_status]

\* AttendanceRecord.manual_override(new_status, lecturer_id, reason)
AttendanceRecord_manual_override(r, new_status, lecturer_id, reason) ==
    [r EXCEPT !.status = new_status,
              !.manually_marked = TRUE,
              !.marked_by_lecturer_id = lecturer_id,
              !.override_reason = reason]

\* AttendanceRecord(...) with the column defaults of the table.
AttendanceRecord(student, status, method, t, minutes_late, is_late, confidence, located, manually, lecturer_id, reason) ==
    [student_id |-> student, status |-> status, check_in_method |-> method,
     check_in_time |-> t, minutes_late |-> minutes_late, is_late |-> is_late,
     manually_marked |-> manually, marked_by_lecturer_id |-> lecturer_id,
     override_reason |-> reason, is_excused |-> FALSE,
     face_confidence_score |-> confidence, located |-> located]

\* The inline lateness computation of the check-in handlers.
minutes_late_at(t) ==
    IF t > ScheduledStart THEN (t - ScheduledStart) \div SecondsPerMinute ELSE 0
\* calculate_late_minutes(check_in_time, session_start_time)
calculate_late_minutes(check_in_time, session_start_time) ==
    IF check_in_time <= session_start_time THEN 0
    ELSE (check_in_time - session_start_time) \div SecondsPerMinute

\* is_check_in_late(check_in_time, session_start_time, late_threshold_minutes)
is_check_in_late(check_in_time, session_start_time, late_threshold_minutes) ==
    calculate_late_minutes(check_in_time, session_start_time) > late_threshold_minutes

\* A lateness test that counts the threshold minute itself as late.
is_late_at_inclusive(t) ==
    IF t > ScheduledStart THEN minutes_late_at(t) >= LATE_ARRIVAL_THRESHOLD ELSE FALSE
is_late_at(t) ==
    IF t > ScheduledStart THEN minutes_late_at(t) > LATE_ARRIVAL_THRESHOLD ELSE FALSE

\* The number of rows of recs with the given status.
CountStatus(recs, status) ==
    Cardinality({i \in 1 .. Len(recs) : recs[i].status = status})

\* ClassSession.update_attendance_stats() over the rows the relationship
\* self.attendance_records loads.
ClassSession_update_attendance_stats(s, loaded) ==
    [s EXCEPT !.present_count = CountStatus(loaded, "present"),
              !.late_count = CountStatus(loaded, "late"),
              !.absent_count = CountStatus(loaded, "absent")]

\* "Create or update attendance record" of the check-in handlers, where i is
\* the row the handler's query found (existing_record), 0 for none: the
\* table after the write.
write_record(recs, i, student, method, t, confidence, located) ==
    IF i # 0
    THEN LET marked == IF is_late_at(t)
                       THEN AttendanceRecord_mark_late(recs[i], minutes_late_at(t),
                                                       method, t, confidence)
                       ELSE AttendanceRecord_mark_present(recs[i], method, t,
                                                          confidence)
         IN [recs EXCEPT ![i] = [marked EXCEPT !.located = located \/ @]]
    ELSE Append(recs,
                AttendanceRecord(student,
                                 IF is_late_at(t) THEN "late" ELSE "present",
                                 method, t, minutes_late_at(t), is_late_at(t),
                                 confidence, located, FALSE, NoLecturer, ""))

write_check_in(recs, student, method, t, confidence, located) ==
    write_record(recs, first_record(recs, student), student, method, t,
                 confidence, located)

\* The rows session.attendance_records loads after the write and before the
\* commit: the session is made with autoflush=False, so a row that was only
\* db.add()ed is not in the table yet, while a row changed in place is the
\* same object the query returns.
loaded_after_write(recs, student, written) ==
    IF first_record(recs, student) # 0 THEN written ELSE recs

\* ------------------------------------------------------------ FaceEncoding
\* calculate_encoding_distance: Euclidean distance; encodings are points on
\* a line, in hundredths of a distance unit.
calculate_encoding_distance(a, b) == IF a >= b THEN a - b ELSE b - a

\* Greatest common divisor, to keep rationals in lowest terms.
RECURSIVE Gcd(_, _)
Gcd(a, b) == IF b = 0 THEN a ELSE Gcd(b, a % b)
Rat(p, q) == IF p = 0 THEN <<0, 1>> ELSE <<p \div Gcd(p, q), q \div Gcd(p, q)>>

\* FaceEncoding.update_match_stats(confidence)
FaceEncoding_update_match_stats(e, confidence) ==
    LET n == e.match_count + 1 IN
    [e EXCEPT !.match_count = n,
              !.average_confidence =
                  IF Truthy(@)
                  THEN Rat((@[1] * (n - 1)) * confidence[2] + confidence[1] * @[2],
                           @[2] * confidence[2] * n)
                  ELSE confidence]

\* The loop with "<=" in place of "<": the last row at minimal distance.
last_encoding_record(encs, enc) ==
    LET active == {i \in 1 .. Len(encs) : encs[i].is_active} IN
    IF active = {} THEN 0
    ELSE CHOOSE i \in active :
            \A j \in active :
                LET di == calculate_encoding_distance(enc, encs[i].encoding)
                    dj == calculate_encoding_distance(enc, encs[j].encoding)
                IN di < dj \/ (di = dj /\ i >= j)

\* The loop of recognize_face: the index of the first active row at minimal
\* distance from the input encoding, 0 when no row is active.
best_encoding_record(encs, enc) ==
    LET active == {i \in 1 .. Len(encs) : encs[i].is_active} IN
    IF active = {} THEN 0
    ELSE CHOOSE i \in active :
            \A j \in active :
                LET di == calculate_encoding_distance(enc, encs[i].encoding)
                    dj == calculate_encoding_distance(enc, encs[j].encoding)
                IN di < dj \/ (di = dj /\ i <= j)

\* FaceRecognitionService.recognize_face(image_data, None, db):
\* (success, student_id, confidence, message) and the table it commits.
recognize_face(image, encs) ==
    LET b == best_encoding_record(encs, image.enc)
        fail(msg) == [success |-> FALSE, student_id |-> 0, confidence |-> <<>>,
                      message |-> msg, encodings |-> encs]
    IN
    IF image.error # "" THEN fail(image.error)
    ELSE IF b = 0 THEN fail("No enrolled students found")
    ELSE LET d == calculate_encoding_distance(image.enc, encs[b].encoding)
             confidence == Rat(FACE_RECOGNITION_TOLERANCE - d,
                               FACE_RECOGNITION_TOLERANCE)
         IN IF d <= FACE_RECOGNITION_TOLERANCE
            THEN [success |-> TRUE, student_id |-> encs[b].student_id,
                  confidence |-> confidence, message |-> "Face recognized",
                  encodings |-> [encs EXCEPT ![b] =
                                    FaceEncoding_update_match_stats(@, confidence)]]
            ELSE fail("Face not recognized")

\* ------------------------------------------------------------------ inputs
\* The empty string, where no token is involved.
NoToken == [enc |-> FALSE, text |-> <<>>]
\* Strings that are neither a session's QR data nor a ciphertext.
Garbage == [enc |-> FALSE, text |-> <<"garbage">>]
\* The ids of the rows of the students table.
Students == DOMAIN students
\* Student ids a request names.
StudentNumbers == Students
\* Content types of an upload: file.content_type.startswith("image/").
ContentIsImage == {TRUE}
\* An uploaded image is the encoding face_recognition derives from it, or the
\* error generate_encoding reports.  Photos: the student's face, a stranger's face, and a photo with no face.
Images ==
    { [error |-> "", enc |-> 0], [error |-> "", enc |-> 500],
      [error |-> "No face detected", enc |-> 0] }
\* Status strings a lecturer sends to manual-mark.
MarkStatuses == AttendanceStatus

\* A face_encodings row of a student, as enrollment stores the first photo.
EnrolledEncoding(student, enc) ==
    [student_id |-> student, encoding |-> enc, quality_score |-> 75,
     capture_angle |-> "front",
     is_active |-> TRUE, is_primary |-> TRUE, match_count |-> 0,
     average_confidence |-> <<>>]

\* The i-th QR string the session minted, and the strings a student can
\* present: those read off the lecturer's display, and others.
IssuedToken(i) == qr_data(i)
Presentable == {IssuedToken(i) : i \in 1 .. issued.n} \cup {Garbage}

Response(op, outcome, student, token) ==
    [op |-> op, outcome |-> outcome, student |-> student, token |-> token]

\* ---------------------------------------------------------------- Init
Init ==
    /\ now = FirstReading
    /\ session = [status |-> "scheduled", attendance_enabled |-> TRUE,
                  check_in_started_at |-> NoTime, check_in_ended_at |-> NoTime,
                  qr_code_data |-> <<>>, qr_code_generated_at |-> NoTime,
                  qr_code_expires_at |-> NoTime,
                  present_count |-> 0, late_count |-> 0, absent_count |-> 0]
    /\ attendance_records = <<>>
    /\ face_encodings = <<EnrolledEncoding(Student1, 0)>>
    /\ students = [s \in {Student1} |-> [is_face_enrolled |-> TRUE]]
    /\ issued = [n |-> 0, refreshed |-> 0]
    /\ result = Response("none", "none", 0, NoToken)
    /\ probe = <<>>
    /\ verdict = <<>>
    /\ transactions = <<>>

\* Time passes: the next request arrives at a later clock reading.
Tick ==
    /\ \E t \in ClockReadings : t > now /\ now' = t
    /\ UNCHANGED <<session, attendance_records, face_encodings, students,
                   issued, result, probe, verdict, transactions>>

\* ------------------------------------------------- session management API
\* The session after generate_qr_code and the record of what was minted.
\* secrets.token_urlsafe never repeats: the nonces are numbered as minted.
NextNonce == issued.n + 1
Mint(s) ==
    ClassSession_generate_qr_code(s, QR_CODE_EXPIRY_MINUTES, now, NextNonce)
Minted(op) ==
    [n |-> NextNonce,
     refreshed |-> IF op = "refresh" THEN NextNonce ELSE issued.refreshed]

\* The status check of POST /sessions/{id}/start.
start_rejected(s) == s.status = "in_progress"

\* POST /sessions/{session_id}/start
start_session(lecturer, sid) ==
    LET outcome ==
            IF sid # SessionId THEN "NotFound"
            ELSE IF lecturer # OwnerLecturer THEN "Forbidden"
            ELSE IF start_rejected(session) THEN "InvalidTransition"
            ELSE "ok"
    IN
    /\ outcome = "ok" => NextNonce <= MaxTokens
    /\ IF outcome = "ok"
       THEN /\ session' = Mint(ClassSession_start_session(session,
                                    ATTENDANCE_CHECK_IN_WINDOW_BEFORE,
                                    ATTENDANCE_CHECK_IN_WINDOW_AFTER))
            /\ issued' = Minted("start")
            /\ result' = Response("start", outcome, 0, qr_data(NextNonce))
       ELSE /\ UNCHANGED <<session, issued>>
            /\ result' = Response("start", outcome, 0, NoToken)
    /\ UNCHANGED <<now, attendance_records, face_encodings, students, probe,
                   verdict, transactions>>

\* The status check of end written like the one of start.
end_rejected_only_completed(s) == s.status = "completed"

\* The status check of POST /sessions/{id}/end.
end_rejected(s) == s.status # "in_progress"

\* POST /sessions/{session_id}/end
end_session(lecturer, sid) ==
    LET outcome ==
            IF sid # SessionId THEN "NotFound"
            ELSE IF lecturer # OwnerLecturer THEN "Forbidden"
            ELSE IF end_rejected(session) THEN "InvalidTransition"
            ELSE "ok"
    IN
    /\ IF outcome = "ok"
       THEN session' = ClassSession_update_attendance_stats(
                           ClassSession_end_session(session, now),
                           attendance_records)
       ELSE UNCHANGED session
    /\ result' = Response("end", outcome, 0, NoToken)
    /\ UNCHANGED <<now, attendance_records, face_encodings, students, issued,
                   probe, verdict, transactions>>

\* DELETE /sessions/{session_id} (lecturers API)
cancel_session(lecturer, sid) ==
    LET outcome ==
            IF sid # SessionId THEN "NotFound"
            ELSE IF lecturer # OwnerLecturer THEN "Forbidden"
            ELSE "ok"
    IN
    /\ IF outcome = "ok"
       THEN session' = ClassSession_cancel_session(session)
       ELSE UNCHANGED session
    /\ result' = Response("cancel", outcome, 0, NoToken)
    /\ UNCHANGED <<now, attendance_records, face_encodings, students, issued,
                   probe, verdict, transactions>>

\* ClassSession.postpone_session called on the session row; no request
\* handler wraps it, so there is no ownership or status check in front of it.
postpone_session ==
    /\ session' = ClassSession_postpone_session(session)
    /\ result' = Response("postpone", "ok", 0, NoToken)
    /\ UNCHANGED <<now, attendance_records, face_encodings, students, issued,
                   probe, verdict, transactions>>

\* GET /sessions/{session_id}/qr-code
get_qr_code(lecturer, sid) ==
    LET outcome ==
            IF sid # SessionId THEN "NotFound"
            ELSE IF lecturer # OwnerLecturer THEN "Forbidden"
            ELSE IF session.status # "in_progress" THEN "SessionNotActive"
            ELSE "ok"
        mint == ~is_qr_code_valid(session, now)
    IN
    /\ (outcome = "ok" /\ mint) => NextNonce <= MaxTokens
    /\ IF outcome = "ok" /\ mint
       THEN /\ session' = Mint(session)
            /\ issued' = Minted("get_qr")
            /\ result' = Response("get_qr", outcome, 0, qr_data(NextNonce))
       ELSE /\ UNCHANGED <<session, issued>>
            /\ result' = Response("get_qr", outcome, 0,
                                  IF outcome = "ok" THEN session.qr_code_data[1]
                                  ELSE NoToken)
    /\ UNCHANGED <<now, attendance_records, face_encodings, students, probe,
                   verdict, transactions>>

\* POST /sessions/{session_id}/refresh-qr
refresh_qr_code(lecturer, sid) ==
    LET outcome ==
            IF sid # SessionId THEN "NotFound"
            ELSE IF lecturer # OwnerLecturer THEN "Forbidden"
            ELSE "ok"
    IN
    /\ outcome = "ok" => NextNonce <= MaxTokens
    /\ IF outcome = "ok"
       THEN /\ session' = Mint(session)
            /\ issued' = Minted("refresh")
            /\ result' = Response("refresh", outcome, 0, qr_data(NextNonce))
       ELSE /\ UNCHANGED <<session, issued>>
            /\ result' = Response("refresh", outcome, 0, NoToken)
    /\ UNCHANGED <<now, attendance_records, face_encodings, students, probe,
                   verdict, transactions>>

\* ------------------------------------------------------------ check-in API
\* The gate every check-in handler applies to the session before anything
\* else: "" when the session accepts check-ins at time t.
session_gate(sid, s, t) ==
    IF sid # SessionId THEN "NotFound"
    ELSE IF s.status # "in_progress" THEN "SessionNotActive"
    ELSE IF ~can_check_in(s, t) THEN "WindowClosed"
    ELSE ""

\* "Check if already checked in": existing_record and existing_record.is_present
already_checked_in(recs, student) ==
    /\ first_record(recs, student) # 0
    /\ is_present(recs[first_record(recs, student)])

\* The commit of a check-in: the record written, the tallies refreshed.
CommitCheckIn(student, method, confidence, located) ==
    LET written == write_check_in(attendance_records, student, method, now,
                                  confidence, located)
    IN /\ attendance_records' = written
       /\ session' = ClassSession_update_attendance_stats(session,
                        loaded_after_write(attendance_records, student, written))

\* A recognition may not push a row's match_count past MaxMatches.
WithinMatches(rec) ==
    \A i \in 1 .. Len(rec.encodings) : rec.encodings[i].match_count <= MaxMatches

\* A face check-in that accepts whichever enrolled face the recognizer
\* finds, without comparing it to the caller.
check_in_with_face_any_match(student, sid, is_image, image) ==
    LET gate == session_gate(sid, session, now)
        rec == recognize_face(image, face_encodings)
        recognised ==
            /\ students[student].is_face_enrolled
            /\ gate = ""
            /\ ~already_checked_in(attendance_records, student)
            /\ is_image
        outcome ==
            IF ~students[student].is_face_enrolled THEN "NotEnrolled"
            ELSE IF gate # "" THEN gate
            ELSE IF already_checked_in(attendance_records, student)
                 THEN "AlreadyCheckedIn"
            ELSE IF ~is_image THEN "NotImage"
            ELSE IF ~rec.success THEN "Rejected"
            ELSE "ok"
    IN
    /\ recognised => WithinMatches(rec)
    /\ face_encodings' = IF recognised THEN rec.encodings ELSE face_encodings
    /\ IF outcome = "ok"
       THEN CommitCheckIn(student, "face_recognition", rec.confidence, FALSE)
       ELSE UNCHANGED <<session, attendance_records>>
    /\ result' = Response("check_in_face", outcome, student, NoToken)
    /\ UNCHANGED <<now, students, issued, probe, verdict, transactions>>

\* POST /check-in/face
check_in_with_face(student, sid, is_image, image) ==
    LET gate == session_gate(sid, session, now)
        rec == recognize_face(image, face_encodings)
        recognised ==
            /\ students[student].is_face_enrolled
            /\ gate = ""
            /\ ~already_checked_in(attendance_records, student)
            /\ is_image
        outcome ==
            IF ~students[student].is_face_enrolled THEN "NotEnrolled"
            ELSE IF gate # "" THEN gate
            ELSE IF already_checked_in(attendance_records, student)
                 THEN "AlreadyCheckedIn"
            ELSE IF ~is_image THEN "NotImage"
            ELSE IF ~rec.success THEN "Rejected"
            ELSE IF rec.student_id # student THEN "Forbidden"
            ELSE "ok"
    IN
    /\ recognised => WithinMatches(rec)
    /\ face_encodings' = IF recognised THEN rec.encodings ELSE face_encodings
    /\ IF outcome = "ok"
       THEN CommitCheckIn(student, "face_recognition", rec.confidence, FALSE)
       ELSE UNCHANGED <<session, attendance_records>>
    /\ result' = Response("check_in_face", outcome, student, NoToken)
    /\ UNCHANGED <<now, students, issued, probe, verdict, transactions>>

\* POST /check-in/qr
check_in_with_qr(student, sid, token, located) ==
    LET gate == session_gate(sid, session, now)
        outcome ==
            IF gate # "" THEN gate
            ELSE IF ~verify_qr_token(token, sid, QR_CODE_EXPIRY_MINUTES, now)
                 THEN "TokenInvalidOrExpired"
            ELSE IF already_checked_in(attendance_records, student)
                 THEN "AlreadyCheckedIn"
            ELSE "ok"
    IN
    /\ IF outcome = "ok"
       THEN CommitCheckIn(student, "qr_code", <<>>, located)
       ELSE UNCHANGED <<session, attendance_records>>
    /\ result' = Response("check_in_qr", outcome, student, token)
    /\ UNCHANGED <<now, face_encodings, students, issued, probe, verdict, transactions>>

\* POST /sessions/{session_id}/kiosk/check-in
kiosk_face_check_in(sid, is_image, image) ==
    LET gate == session_gate(sid, session, now)
        rec == recognize_face(image, face_encodings)
        recognised == gate = "" /\ is_image
        outcome ==
            IF gate # "" THEN gate
            ELSE IF ~is_image THEN "NotImage"
            ELSE IF ~rec.success THEN "Rejected"
            ELSE IF already_checked_in(attendance_records, rec.student_id)
                 THEN "AlreadyCheckedIn"
            ELSE "ok"
    IN
    /\ recognised => WithinMatches(rec)
    /\ face_encodings' = IF recognised THEN rec.encodings ELSE face_encodings
    /\ IF outcome = "ok"
       THEN CommitCheckIn(rec.student_id, "face_recognition", rec.confidence, FALSE)
       ELSE UNCHANGED <<session, attendance_records>>
    /\ result' = Response("kiosk_face", outcome,
                          IF recognised THEN rec.student_id ELSE 0, NoToken)
    /\ UNCHANGED <<now, students, issued, probe, verdict, transactions>>

\* POST /sessions/{session_id}/kiosk/qr-check-in
kiosk_qr_check_in(sid, student_id_number) ==
    LET gate == session_gate(sid, session, now)
        outcome ==
            IF gate # "" THEN gate
            ELSE IF student_id_number \notin Students THEN "StudentNotFound"
            ELSE IF already_checked_in(attendance_records, student_id_number)
                 THEN "AlreadyCheckedIn"
            ELSE "ok"
    IN
    /\ IF outcome = "ok"
       THEN CommitCheckIn(student_id_number, "qr_code", <<>>, FALSE)
       ELSE UNCHANGED <<session, attendance_records>>
    /\ result' = Response("kiosk_qr", outcome, student_id_number, NoToken)
    /\ UNCHANGED <<now, face_encodings, students, issued, probe, verdict, transactions>>

\* POST /sessions/{session_id}/manual-mark
manual_mark_attendance(lecturer, sid, student_id, status, reason) ==
    LET outcome ==
            IF status \notin AttendanceStatus THEN "BadStatus"
            ELSE IF sid # SessionId THEN "NotFound"
            ELSE IF lecturer # OwnerLecturer THEN "Forbidden"
            ELSE IF student_id \notin Students THEN "StudentNotFound"
            ELSE "ok"
        i == first_record(attendance_records, student_id)
        written ==
            IF i # 0
            THEN [attendance_records EXCEPT ![i] =
                    AttendanceRecord_manual_override(@, status, lecturer, reason)]
            ELSE Append(attendance_records,
                        AttendanceRecord(student_id, status, "manual", NoTime, 0,
                                         FALSE, <<>>, FALSE, TRUE, lecturer, reason))
    IN
    /\ IF outcome = "ok"
       THEN /\ attendance_records' = written
            /\ session' = ClassSession_update_attendance_stats(session,
                             loaded_after_write(attendance_records, student_id,
                                                written))
       ELSE UNCHANGED <<session, attendance_records>>
    /\ result' = Response("manual_mark", outcome, student_id, NoToken)
    /\ UNCHANGED <<now, face_encodings, students, issued, probe, verdict, transactions>>

\* ------------------------------------------------------------ specification
Next ==
    \/ Tick
    \/ \E l \in Lecturers, sid \in SessionIds : start_session(l, sid)
    \/ \E l \in Lecturers, sid \in SessionIds : end_session(l, sid)
    \/ \E l \in Lecturers, sid \in SessionIds : cancel_session(l, sid)
    \/ \E l \in Lecturers, sid \in SessionIds : get_qr_code(l, sid)
    \/ \E l \in Lecturers, sid \in SessionIds : refresh_qr_code(l, sid)
    \/ \E st \in Students, sid \in SessionIds, im \in ContentIsImage, img \in Images :
            check_in_with_face(st, sid, im, img)
    \/ \E st \in Students, sid \in SessionIds, tok \in Presentable,
          loc \in BOOLEAN : check_in_with_qr(st, sid, tok, loc)
    \/ \E sid \in SessionIds, im \in ContentIsImage, img \in Images :
            kiosk_face_check_in(sid, im, img)
    \/ \E sid \in SessionIds, n \in StudentNumbers : kiosk_qr_check_in(sid, n)
    \/ \E l \in Lecturers, sid \in SessionIds, st \in StudentNumbers,
          status \in MarkStatuses, reason \in Reasons :
            manual_mark_attendance(l, sid, st, status, reason)
    \/ postpone_session

Spec == Init /\ [][Next]_vars

\* ------------------------------------------- the QR token functions alone
\* generate_qr_token and verify_qr_token are pure functions of the token,
\* the session id and the clock; SpecToken applies them to tokens the
\* program mints and to ciphertexts of other payloads.
TokenPayload(token, embedded, issued_at, kind) ==
    [token |-> token, embedded |-> embedded, issued_at |-> issued_at,
     kind |-> kind]
NoPayload == TokenPayload(NoToken, 0, NoTime, "none")
TokenSessions == {1, 2}
\* Ciphertexts whose payload has three fields: a session id, a timestamp
\* without a time of day or with hours only, and a nonce.
ThreeFieldPayloads ==
    { TokenPayload(encrypt_data(<<Str(sid), ":", "2024-01-01", "T", "9", ":", "n0">>),
                   sid, ScheduledStart, "hours") : sid \in TokenSessions }
    \cup
    { TokenPayload(encrypt_data(<<Str(sid), ":", "2024-01-01", ":", "n0">>),
                   sid, 0, "date") : sid \in TokenSessions }
\* Strings verification has to refuse: too few fields, a session id that is
\* no number, a timestamp that is no timestamp, and strings that are no
\* ciphertext.
MalformedPayloads ==
    { TokenPayload(encrypt_data(<<"1", ":", "n0">>), 1, NoTime, "malformed"),
      TokenPayload(encrypt_data(<<"x", ":", "2024-01-01", "T", "9", ":", "n0">>),
                   0, ScheduledStart, "malformed"),
      TokenPayload(encrypt_data(<<"1", ":", "yesterday", ":", "n0">>),
                   1, NoTime, "malformed"),
      TokenPayload(qr_data(1), 1, NoTime, "malformed"),
      TokenPayload(Garbage, 0, NoTime, "malformed") }
\* Verification times: at issue, 14:59, 15:00 and 15:01 after 09:00:00.
TokenClock ==
    { ScheduledStart, ScheduledStart + 14 * SecondsPerMinute + 59,
      ScheduledStart + 15 * SecondsPerMinute,
      ScheduledStart + 15 * SecondsPerMinute + 1 }

TokenInit ==
    /\ now = ScheduledStart
    /\ probe \in {NoPayload} \cup ThreeFieldPayloads \cup MalformedPayloads
    /\ verdict = <<>>
    /\ transactions = <<>>
    /\ session = [status |-> "scheduled", attendance_enabled |-> TRUE,
                  check_in_started_at |-> NoTime, check_in_ended_at |-> NoTime,
                  qr_code_data |-> <<>>, qr_code_generated_at |-> NoTime,
                  qr_code_expires_at |-> NoTime,
                  present_count |-> 0, late_count |-> 0, absent_count |-> 0]
    /\ attendance_records = <<>>
    /\ face_encodings = <<>>
    /\ students = [s \in {Student1} |-> [is_face_enrolled |-> FALSE]]
    /\ issued = [n |-> 0, refreshed |-> 0]
    /\ result = Response("none", "none", 0, NoToken)

\* generate_qr_token(sid) is called at the current time.
token_generate(sid) ==
    /\ probe = NoPayload
    /\ probe' = TokenPayload(generate_qr_token(sid, now, 0), sid, now, "generated")
    /\ UNCHANGED <<now, session, attendance_records, face_encodings, students,
                   issued, result, verdict, transactions>>

token_tick ==
    /\ \E t \in TokenClock : t > now /\ now' = t
    /\ UNCHANGED <<session, attendance_records, face_encodings, students,
                   issued, result, probe, verdict, transactions>>

\* verify_qr_token(token, sid, QR_CODE_EXPIRY_MINUTES) is called at the
\* current time.
token_verify(sid) ==
    /\ probe # NoPayload
    /\ verdict' = << [session_id |-> sid, at |-> now,
                      valid |-> verify_qr_token(probe.token, sid,
                                                QR_CODE_EXPIRY_MINUTES, now)] >>
    /\ UNCHANGED <<now, session, attendance_records, face_encodings, students,
                   issued, result, probe, transactions>>

TokenNext ==
    \/ \E sid \in TokenSessions : token_generate(sid)
    \/ token_tick
    \/ \E sid \in TokenSessions : token_verify(sid)

SpecToken == TokenInit /\ [][TokenNext]_vars

\* ------------------------------------------- requests served concurrently
\* The handlers take no lock and the tables carry no uniqueness constraint
\* on (session_id, student_id): between a handler's queries and its
\* db.commit() other requests run.  SpecRace serves up to MaxRequests
\* requests, each in two steps: the queries and checks, then the writes and
\* the commit.
Transaction(op, pc, seen, outcome) ==
    [op |-> op, pc |-> pc, seen |-> seen, outcome |-> outcome]
\* A request that was refused by its checks, and one that goes on to write.
Refused(op, outcome) == Transaction(op, "done", 0, outcome)
Reading(op, seen) == Transaction(op, "read", seen, "")
Finished(r, outcome) ==
    [transactions EXCEPT ![r].pc = "done", ![r].outcome = outcome]

\* POST /sessions/{id}/start up to its status check.
begin_start ==
    /\ Len(transactions) < MaxRequests
    /\ transactions' =
          Append(transactions,
                 IF start_rejected(session) THEN Refused("start", "InvalidTransition")
                 ELSE Reading("start", 0))
    /\ UNCHANGED <<now, session, attendance_records, face_encodings, students,
                   issued, result, probe, verdict>>

\* POST /sessions/{id}/start from session.start_session() to db.commit().
commit_start(r) ==
    /\ transactions[r].op = "start"
    /\ transactions[r].pc = "read"
    /\ NextNonce <= MaxTokens
    /\ session' = Mint(ClassSession_start_session(session,
                          ATTENDANCE_CHECK_IN_WINDOW_BEFORE,
                          ATTENDANCE_CHECK_IN_WINDOW_AFTER))
    /\ issued' = Minted("start")
    /\ transactions' = Finished(r, "ok")
    /\ UNCHANGED <<now, attendance_records, face_encodings, students, result,
                   probe, verdict>>

\* POST /check-in/face and the kiosk's QR check-in up to the query for the
\* existing record and the "already checked in" check.
begin_check_in(op, student) ==
    LET gate == session_gate(SessionId, session, now)
        outcome ==
            IF op = "check_in_face" /\ ~students[student].is_face_enrolled
            THEN "NotEnrolled"
            ELSE IF gate # "" THEN gate
            ELSE IF already_checked_in(attendance_records, student)
                 THEN "AlreadyCheckedIn"
            ELSE ""
    IN
    /\ Len(transactions) < MaxRequests
    /\ transactions' =
          Append(transactions,
                 IF outcome # "" THEN Refused(op, outcome)
                 ELSE Reading(op, first_record(attendance_records, student)))
    /\ UNCHANGED <<now, session, attendance_records, face_encodings, students,
                   issued, result, probe, verdict>>

\* The rest of the check-in handler: the recognition (face path), the
\* lateness, the record created or updated as the query found it, the
\* tallies, db.commit().
commit_check_in(r, student, image) ==
    LET t == transactions[r]
        face == t.op = "check_in_face"
        rec == recognize_face(image, face_encodings)
        outcome ==
            IF face /\ ~rec.success THEN "Rejected"
            ELSE IF face /\ rec.student_id # student THEN "Forbidden"
            ELSE "ok"
        written ==
            write_record(attendance_records, t.seen, student,
                         IF face THEN "face_recognition" ELSE "qr_code", now,
                         IF face THEN rec.confidence ELSE <<>>, FALSE)
    IN
    /\ t.op \in {"check_in_face", "kiosk_qr"}
    /\ t.pc = "read"
    /\ face => WithinMatches(rec)
    /\ face_encodings' = IF face THEN rec.encodings ELSE face_encodings
    /\ IF outcome = "ok"
       THEN /\ attendance_records' = written
            /\ session' = ClassSession_update_attendance_stats(session,
                             IF t.seen # 0 THEN written ELSE attendance_records)
       ELSE UNCHANGED <<session, attendance_records>>
    /\ transactions' = Finished(r, outcome)
    /\ UNCHANGED <<now, students, issued, result, probe, verdict>>

RaceNext ==
    \/ Tick
    \/ begin_start
    \/ \E r \in 1 .. Len(transactions) : commit_start(r)
    \/ \E op \in {"check_in_face", "kiosk_qr"}, st \in Students :
            begin_check_in(op, st)
    \/ \E r \in 1 .. Len(transactions), st \in Students, img \in Images :
            commit_check_in(r, st, img)

SpecRace == Init /\ [][RaceNext]_vars

\* ------------------------------------------------- the lateness rule alone
\* SpecLate serves check-ins to a session in progress at times around the
\* scheduled start, and applies the two lateness helpers of the attendance
\* model to the same times.
\* Check-in times: a minute early, on the start, 59 s, 1 min, 3 min, 5 min,
\* 5 min 59 s, 6 min, 10 min and 15 min after it.
LateClock ==
    { ScheduledStart - SecondsPerMinute, ScheduledStart, ScheduledStart + 59,
      ScheduledStart + SecondsPerMinute,
      ScheduledStart + 3 * SecondsPerMinute,
      ScheduledStart + LATE_ARRIVAL_THRESHOLD * SecondsPerMinute,
      ScheduledStart + LATE_ARRIVAL_THRESHOLD * SecondsPerMinute + 59,
      ScheduledStart + (LATE_ARRIVAL_THRESHOLD + 1) * SecondsPerMinute,
      ScheduledStart + 10 * SecondsPerMinute,
      ScheduledStart + ATTENDANCE_CHECK_IN_WINDOW_AFTER * SecondsPerMinute }
\* Values of the late_threshold_minutes parameter.
LateThresholds == {0, LATE_ARRIVAL_THRESHOLD}
\* The row a manual mark creates for a student without a record.
ManualRecord(student, status) ==
    AttendanceRecord(student, status, "manual", NoTime, 0, FALSE, <<>>, FALSE,
                     TRUE, OwnerLecturer, "sick note")

\* The session was started, the student may have been marked absent or
\* excused by hand, and the clock stands at the time of the check-in.
LateInit ==
    /\ now \in LateClock
    /\ issued = [n |-> 1, refreshed |-> 0]
    /\ session = ClassSession_generate_qr_code(
                    ClassSession_start_session(
                        [status |-> "scheduled", attendance_enabled |-> TRUE,
                         check_in_started_at |-> NoTime,
                         check_in_ended_at |-> NoTime,
                         qr_code_data |-> <<>>, qr_code_generated_at |-> NoTime,
                         qr_code_expires_at |-> NoTime,
                         present_count |-> 0, late_count |-> 0,
                         absent_count |-> 0],
                        ATTENDANCE_CHECK_IN_WINDOW_BEFORE,
                        ATTENDANCE_CHECK_IN_WINDOW_AFTER),
                    QR_CODE_EXPIRY_MINUTES, ScheduledStart - SecondsPerMinute, 1)
    /\ attendance_records \in
          {<<>>} \cup {<<ManualRecord(Student1, st)>> : st \in {"absent", "excused"}}
    /\ face_encodings = <<EnrolledEncoding(Student1, 0)>>
    /\ students = [s \in {Student1} |-> [is_face_enrolled |-> TRUE]]
    /\ result = Response("none", "none", 0, NoToken)
    /\ probe = <<>>
    /\ verdict = <<>>
    /\ transactions = <<>>

\* calculate_late_minutes and is_check_in_late at the current time.
late_helpers(threshold) ==
    /\ probe' = <<[check_in_time |-> now, late_threshold_minutes |-> threshold]>>
    /\ verdict' = <<[minutes |-> calculate_late_minutes(now, ScheduledStart),
                     late |-> is_check_in_late(now, ScheduledStart, threshold)]>>
    /\ UNCHANGED <<now, session, attendance_records, face_encodings, students,
                   issued, result, transactions>>

LateNext ==
    \/ \E threshold \in LateThresholds : late_helpers(threshold)
    \/ \E st \in Students, sid \in SessionIds, im \in ContentIsImage, img \in Images :
            check_in_with_face(st, sid, im, img)
    \/ \E sid \in SessionIds, n \in StudentNumbers : kiosk_qr_check_in(sid, n)

SpecLate == LateInit /\ [][LateNext]_vars

\* =============================================== the enrollment gallery
\* A second student, whose stored photo the first student's requests meet.
Student2 == 2

\* FaceEncoding.mark_as_primary()
FaceEncoding_mark_as_primary(e) == [e EXCEPT !.is_primary = TRUE]

\* FaceEncoding.deactivate()
FaceEncoding_deactivate(e) == [e EXCEPT !.is_active = FALSE]

\* The row enroll_student_face constructs for a photo.
FaceEncoding(student_id, photo) ==
    [student_id |-> student_id, encoding |-> photo.enc,
     quality_score |-> photo.quality, capture_angle |-> photo.angle,
     is_active |-> TRUE, is_primary |-> FALSE, match_count |-> 0,
     average_confidence |-> <<>>]

\* The query without the is_active filter.
AllRows(student_id, encs) ==
    {i \in 1 .. Len(encs) : encs[i].student_id = student_id}
\* The query "student_id == student_id, is_active == True": row ids in order.
ActiveRows(student_id, encs) ==
    {i \in 1 .. Len(encs) : encs[i].student_id = student_id /\ encs[i].is_active}

\* The duplicate check without the is_active filter.
is_duplicate_any_row(student_id, enc, encs) ==
    \E i \in 1 .. Len(encs) :
        /\ encs[i].student_id = student_id
        /\ calculate_encoding_distance(enc, encs[i].encoding) < DuplicateDistance
\* The duplicate check of enroll_student_face.
is_duplicate(student_id, enc, encs) ==
    \E i \in ActiveRows(student_id, encs) :
        calculate_encoding_distance(enc, encs[i].encoding) < DuplicateDistance

\* FaceRecognitionService.enroll_student_face(student_id, image_data, angle, db):
\* (success, message), the id of the stored row, and the tables as committed.
enroll_student_face(student_id, photo, encs, studs) ==
    LET fail(msg) == [success |-> FALSE, message |-> msg, encoding_id |-> 0,
                      encodings |-> encs, students |-> studs]
        stored == Append(encs, FaceEncoding(student_id, photo))
        id == Len(stored)
        student_encodings == ActiveRows(student_id, stored)
    IN
    IF photo.error # "" THEN fail(photo.error)
    ELSE IF is_duplicate(student_id, photo.enc, encs) THEN fail("This photo appears to be a duplicate")
    ELSE [success |-> TRUE, message |-> "Face enrolled successfully",
          encoding_id |-> id,
          encodings |->
              IF Cardinality(student_encodings) = 1 \/ photo.quality > PrimaryQuality
              THEN [stored EXCEPT ![id] = FaceEncoding_mark_as_primary(@)]
              ELSE stored,
          students |-> [studs EXCEPT ![student_id].is_face_enrolled = TRUE]]

\* The angles of the rows in ids, in row order.
RECURSIVE AnglesOf(_, _, _)
AnglesOf(encs, ids, i) ==
    IF i > Len(encs) THEN <<>>
    ELSE (IF i \in ids THEN <<encs[i].capture_angle>> ELSE <<>>)
            \o AnglesOf(encs, ids, i + 1)

\* FaceRecognitionService.get_enrollment_progress(student_id, db)
get_enrollment_progress(student_id, encs) ==
    LET encodings == ActiveRows(student_id, encs) IN
    [total_photos |-> Cardinality(encodings),
     is_complete |-> Cardinality(encodings) >= MIN_ENROLLMENT_PHOTOS,
     captured_angles |-> AnglesOf(encs, encodings, 1),
     has_primary |-> \E i \in encodings : encs[i].is_primary]

\* A reset that deactivates the rows and leaves the student's flag set.
delete_student_encodings_keep_flag(student_id, encs, studs) ==
    [encodings |-> [i \in 1 .. Len(encs) |->
                       IF encs[i].student_id = student_id
                       THEN FaceEncoding_deactivate(encs[i]) ELSE encs[i]],
     students |-> studs]

\* FaceRecognitionService.delete_student_encodings(student_id, db): the tables
\* as committed.
delete_student_encodings(student_id, encs, studs) ==
    [encodings |-> [i \in 1 .. Len(encs) |->
                       IF encs[i].student_id = student_id
                       THEN FaceEncoding_deactivate(encs[i]) ELSE encs[i]],
     students |-> [studs EXCEPT ![student_id].is_face_enrolled = FALSE]]

\* ------------------------------------------------------ enrollment inputs
valid_angles == {"front", "left", "right", "up", "down"}
\* Photos a student uploads: the encoding and the quality score the service
\* derives from the image, and the angle sent with it.  The second lies 29
\* hundredths from the first, the third exactly 30 from the second.
Photo(error, enc, quality, angle) ==
    [error |-> error, enc |-> enc, quality |-> quality, angle |-> angle]
Photos ==
    { Photo("", 0, 75, "front"), Photo("", 29, 85, "left"),
      Photo("", 59, 70, "right"), Photo("", 59, 70, "profile"),
      Photo("No face detected", 0, 0, "front") }
\* Faces shown to recognition, as the encodings generate_encoding derives:
\* one halfway between two photos, one at the tolerance from the stored photo
\* of student 2, one just beyond it.
Queries == { [error |-> "", enc |-> e] : e \in {44, 121, 122} }
\* The matches the gallery's usage counters have recorded.
RECURSIVE TotalMatches(_)
TotalMatches(encs) ==
    IF encs = <<>> THEN 0 ELSE Head(encs).match_count + TotalMatches(Tail(encs))
\* The students who send enrollment requests.
Enrolling == {Student1}

\* Student 2 is enrolled with one photo; student 1 has not enrolled yet.
GalleryInit ==
    /\ now = FirstReading
    /\ session = [status |-> "scheduled", attendance_enabled |-> TRUE,
                  check_in_started_at |-> NoTime, check_in_ended_at |-> NoTime,
                  qr_code_data |-> <<>>, qr_code_generated_at |-> NoTime,
                  qr_code_expires_at |-> NoTime,
                  present_count |-> 0, late_count |-> 0, absent_count |-> 0]
    /\ attendance_records = <<>>
    /\ face_encodings = <<EnrolledEncoding(Student2, 61)>>
    /\ students = [s \in {Student1, Student2} |->
                      [is_face_enrolled |-> s = Student2]]
    /\ issued = [n |-> 0, refreshed |-> 0]
    /\ result = Response("none", "none", 0, NoToken)
    /\ probe = <<>>
    /\ verdict = <<>>
    /\ transactions = <<>>

\* POST /face-enrollment/upload
upload_face_photo(student, is_image, photo) ==
    LET existing_count == Cardinality(ActiveRows(student, face_encodings))
        enrolled == enroll_student_face(student, photo, face_encodings, students)
        reply(outcome) == Response("upload_face_photo", outcome, student, NoToken)
    IN
    /\ Len(face_encodings) <= MaxUploads
    /\ probe' = <<photo>>
    /\ IF ~is_image THEN
            /\ result' = reply("File must be an image")
            /\ verdict' = <<>>
            /\ UNCHANGED <<face_encodings, students>>
       ELSE IF photo.angle \notin valid_angles THEN
            /\ result' = reply("Invalid angle")
            /\ verdict' = <<>>
            /\ UNCHANGED <<face_encodings, students>>
       ELSE IF existing_count >= MAX_ENROLLMENT_PHOTOS THEN
            /\ result' = reply("Maximum photos allowed")
            /\ verdict' = <<>>
            /\ UNCHANGED <<face_encodings, students>>
       ELSE IF photo.error # "" THEN
            /\ result' = reply(photo.error)
            /\ verdict' = <<>>
            /\ UNCHANGED <<face_encodings, students>>
       ELSE /\ face_encodings' = enrolled.encodings
            /\ students' = enrolled.students
            /\ result' = reply(enrolled.message)
            /\ verdict' = IF enrolled.success
                          THEN <<get_enrollment_progress(student, enrolled.encodings)>>
                          ELSE <<>>
    /\ UNCHANGED <<now, session, attendance_records, issued, transactions>>

\* DELETE /face-enrollment/photos/{encoding_id}
delete_face_photo(student, encoding_id) ==
    LET found == encoding_id \in 1 .. Len(face_encodings)
                    /\ face_encodings[encoding_id].student_id = student
        deactivated == [face_encodings EXCEPT ![encoding_id] = FaceEncoding_deactivate(@)]
        remaining == Cardinality(ActiveRows(student, deactivated))
        reply(outcome) == Response("delete_face_photo", outcome, student, NoToken)
    IN
    /\ probe' = <<encoding_id>>
    /\ IF ~found THEN
            /\ result' = reply("Photo not found")
            /\ verdict' = <<>>
            /\ UNCHANGED <<face_encodings, students>>
       ELSE /\ face_encodings' = deactivated
            /\ students' = IF remaining = 0
                           THEN [students EXCEPT ![student].is_face_enrolled = FALSE]
                           ELSE students
            /\ result' = reply("Photo deleted successfully")
            /\ verdict' = <<remaining>>
    /\ UNCHANGED <<now, session, attendance_records, issued, transactions>>

\* DELETE /face-enrollment/reset
reset_face_enrollment(student) ==
    LET deleted == delete_student_encodings(student, face_encodings, students) IN
    /\ face_encodings' = deleted.encodings
    /\ students' = deleted.students
    /\ result' = Response("reset_face_enrollment",
                          "Face enrollment reset successfully", student, NoToken)
    /\ probe' = <<>>
    /\ verdict' = <<>>
    /\ UNCHANGED <<now, session, attendance_records, issued, transactions>>

\* GET /face-enrollment/status
get_face_enrollment_status(student) ==
    /\ result' = Response("get_face_enrollment_status", "ok", student, NoToken)
    /\ probe' = <<>>
    /\ verdict' = <<[is_enrolled |-> students[student].is_face_enrolled,
                     progress |-> get_enrollment_progress(student, face_encodings)]>>
    /\ UNCHANGED <<now, session, attendance_records, face_encodings, students,
                   issued, transactions>>

\* One call of recognize_face(image_data, None, db), as the check-in handlers
\* make it: the answer, and the usage counters it commits.
FaceRecognitionService_recognize_face(image) ==
    LET rec == recognize_face(image, face_encodings) IN
    /\ TotalMatches(rec.encodings) <= MaxMatches
    /\ face_encodings' = rec.encodings
    /\ result' = Response("recognize_face", rec.message, rec.student_id, NoToken)
    /\ probe' = <<image>>
    /\ verdict' = <<rec.confidence>>
    /\ UNCHANGED <<now, session, attendance_records, students, issued,
                   transactions>>

GalleryNext ==
    \/ \E st \in Enrolling, im \in ContentIsImage, ph \in Photos :
            upload_face_photo(st, im, ph)
    \/ \E st \in Enrolling, id \in 1 .. Len(face_encodings) :
            delete_face_photo(st, id)
    \/ \E st \in Enrolling : reset_face_enrollment(st)
    \/ \E st \in Enrolling : get_face_enrollment_status(st)
    \/ \E img \in Queries : FaceRecognitionService_recognize_face(img)

SpecGallery == GalleryInit /\ [][GalleryNext]_vars

\* ============================== concurrent enrollment and recognition
\* The photos that pass the checks of the upload handler.
EnrollmentPhotos == {ph \in Photos : ph.error = "" /\ ph.angle \in valid_angles}

\* POST /face-enrollment/upload through the first db.commit() of
\* enroll_student_face: the checks, and the new row stored as constructed.
enroll_store(student, photo) ==
    LET existing_count == Cardinality(ActiveRows(student, face_encodings))
        outcome ==
            IF photo.angle \notin valid_angles THEN "Invalid angle"
            ELSE IF existing_count >= MAX_ENROLLMENT_PHOTOS THEN "Maximum photos allowed"
            ELSE IF photo.error # "" THEN photo.error
            ELSE IF is_duplicate(student, photo.enc, face_encodings)
                 THEN "This photo appears to be a duplicate"
            ELSE ""
    IN
    /\ Len(transactions) < MaxRequests
    /\ Len(face_encodings) <= MaxUploads
    /\ IF outcome # ""
       THEN /\ transactions' = Append(transactions, Refused("upload_face_photo", outcome))
            /\ UNCHANGED face_encodings
       ELSE /\ face_encodings' = Append(face_encodings, FaceEncoding(student, photo))
            /\ transactions' =
                  Append(transactions,
                         Transaction("upload_face_photo", "stored",
                                     Len(face_encodings) + 1, ""))
    /\ UNCHANGED <<now, session, attendance_records, students, issued, result,
                   probe, verdict>>

\* enroll_student_face from the query for the student's active rows to the
\* second db.commit().
enroll_primary(r) ==
    LET t == transactions[r]
        row == face_encodings[t.seen]
        student_encodings == ActiveRows(row.student_id, face_encodings)
    IN
    /\ t.op = "upload_face_photo"
    /\ t.pc = "stored"
    /\ face_encodings' =
          IF Cardinality(student_encodings) = 1 \/ row.quality_score > PrimaryQuality
          THEN [face_encodings EXCEPT ![t.seen] = FaceEncoding_mark_as_primary(@)]
          ELSE face_encodings
    /\ transactions' = [transactions EXCEPT ![r].pc = "primary"]
    /\ UNCHANGED <<now, session, attendance_records, students, issued, result,
                   probe, verdict>>

\* enroll_student_face from the query for the student to the third db.commit().
enroll_student(r) ==
    LET t == transactions[r] IN
    /\ t.op = "upload_face_photo"
    /\ t.pc = "primary"
    /\ students' = [students EXCEPT
                       ![face_encodings[t.seen].student_id].is_face_enrolled = TRUE]
    /\ transactions' = Finished(r, "ok")
    /\ UNCHANGED <<now, session, attendance_records, face_encodings, issued,
                   result, probe, verdict>>

\* A query or commit after the first commit raises: the except branch rolls
\* back what is pending and the call returns; what was committed stays.
enroll_abandon(r) ==
    /\ transactions[r].op = "upload_face_photo"
    /\ transactions[r].pc \in {"stored", "primary"}
    /\ transactions' = Finished(r, "abandoned")
    /\ UNCHANGED <<now, session, attendance_records, face_encodings, students,
                   issued, result, probe, verdict>>

\* recognize_face through the loop over the rows query.all() loaded: the best
\* row and its fields as loaded.
begin_recognize(image) ==
    LET b == best_encoding_record(face_encodings, image.enc)
        d == calculate_encoding_distance(image.enc, face_encodings[b].encoding)
    IN
    /\ Len(transactions) < MaxRequests
    /\ transactions' =
          Append(transactions,
                 IF image.error # "" THEN Refused("recognize_face", image.error)
                 ELSE IF b = 0 THEN Refused("recognize_face", "No enrolled students found")
                 ELSE IF d > FACE_RECOGNITION_TOLERANCE
                      THEN Refused("recognize_face", "Face not recognized")
                 ELSE Reading("recognize_face",
                              [id |-> b, loaded |-> face_encodings[b],
                               confidence |-> Rat(FACE_RECOGNITION_TOLERANCE - d,
                                                  FACE_RECOGNITION_TOLERANCE)]))
    /\ UNCHANGED <<now, session, attendance_records, face_encodings, students,
                   issued, result, probe, verdict>>

\* recognize_face from update_match_stats to db.commit(): the counters
\* computed from the loaded fields are written to the row.
commit_recognize(r) ==
    LET t == transactions[r]
        updated == FaceEncoding_update_match_stats(t.seen.loaded, t.seen.confidence)
    IN
    /\ t.op = "recognize_face"
    /\ t.pc = "read"
    /\ face_encodings' =
          [face_encodings EXCEPT
              ![t.seen.id].match_count = updated.match_count,
              ![t.seen.id].average_confidence = updated.average_confidence]
    /\ transactions' = Finished(r, "Face recognized")
    /\ UNCHANGED <<now, session, attendance_records, students, issued, result,
                   probe, verdict>>

GalleryRaceNext ==
    \/ \E st \in Enrolling, ph \in EnrollmentPhotos : enroll_store(st, ph)
    \/ \E r \in 1 .. Len(transactions) : enroll_primary(r)
    \/ \E r \in 1 .. Len(transactions) : enroll_student(r)
    \/ \E r \in 1 .. Len(transactions) : enroll_abandon(r)
    \/ \E st \in Enrolling : get_face_enrollment_status(st)
    \/ \E img \in Queries : begin_recognize(img)
    \/ \E r \in 1 .. Len(transactions) : commit_recognize(r)

SpecGalleryRace == GalleryInit /\ [][GalleryRaceNext]_vars

\* ===================================================== recognition inputs
\* What the image libraries report of an uploaded file: whether cv2 decodes
\* it, the faces face_locations finds, the size of the face in pixels, whether
\* face_encodings yields an encoding, and that encoding.
RawImage(decodable, faces, face_size, encodable, enc) ==
    [decodable |-> decodable, faces |-> faces, face_size |-> face_size,
     encodable |-> encodable, enc |-> enc]
RawImages ==
    { RawImage(FALSE, 0, 0, FALSE, 0), RawImage(TRUE, 0, 0, FALSE, 0),
      RawImage(TRUE, 2, 200, TRUE, 0), RawImage(TRUE, 1, MIN_FACE_SIZE - 1, TRUE, 0),
      RawImage(TRUE, 1, MIN_FACE_SIZE, FALSE, 0),
      RawImage(TRUE, 1, MIN_FACE_SIZE, TRUE, 0), RawImage(TRUE, 1, 200, TRUE, 60),
      RawImage(TRUE, 1, 200, TRUE, 61) }

\* A detection that lets every decodable image through.
detect_face_unchecked(raw) == IF ~raw.decodable THEN "Invalid image" ELSE ""

\* FaceRecognitionService.detect_face(image_data): the error, "" on success.
detect_face(raw) ==
    IF ~raw.decodable THEN "Invalid image"
    ELSE IF raw.faces = 0 THEN "No face detected"
    ELSE IF raw.faces > 1 THEN "Multiple faces detected"
    ELSE IF raw.face_size < MIN_FACE_SIZE THEN "Face too small"
    ELSE ""

\* FaceRecognitionService.generate_encoding(image_data): the error and the
\* encoding.
generate_encoding(raw) ==
    [error |-> IF detect_face(raw) # "" THEN detect_face(raw)
               ELSE IF ~raw.encodable THEN "Could not generate face encoding"
               ELSE "",
     enc |-> raw.enc]

\* The galleries recognition meets: nobody enrolled, the student enrolled
\* with one photo, and that photo deactivated.
Galleries ==
    { <<>>, <<EnrolledEncoding(Student1, 0)>>,
      <<FaceEncoding_deactivate(EnrolledEncoding(Student1, 0))>> }

\* The session is in progress as in LateInit; the gallery is one of Galleries.
RecognizeInit ==
    /\ now \in {ScheduledStart, ScheduledStart + 6 * SecondsPerMinute}
    /\ issued = [n |-> 1, refreshed |-> 0]
    /\ session = ClassSession_generate_qr_code(
                    ClassSession_start_session(
                        [status |-> "scheduled", attendance_enabled |-> TRUE,
                         check_in_started_at |-> NoTime,
                         check_in_ended_at |-> NoTime,
                         qr_code_data |-> <<>>, qr_code_generated_at |-> NoTime,
                         qr_code_expires_at |-> NoTime,
                         present_count |-> 0, late_count |-> 0,
                         absent_count |-> 0],
                        ATTENDANCE_CHECK_IN_WINDOW_BEFORE,
                        ATTENDANCE_CHECK_IN_WINDOW_AFTER),
                    QR_CODE_EXPIRY_MINUTES, ScheduledStart - SecondsPerMinute, 1)
    /\ attendance_records \in
          {<<>>} \cup {<<ManualRecord(Student1, st)>> : st \in {"absent", "excused"}}
    /\ face_encodings \in Galleries
    /\ students = [s \in {Student1} |->
                      [is_face_enrolled |->
                          \E i \in 1 .. Len(face_encodings) : face_encodings[i].is_active]]
    /\ result = Response("none", "none", 0, NoToken)
    /\ probe = <<>>
    /\ verdict = <<>>
    /\ transactions = <<>>

\* One call of recognize_face on an uploaded file.
recognize_image(raw) ==
    LET rec == recognize_face(generate_encoding(raw), face_encodings) IN
    /\ WithinMatches(rec)
    /\ face_encodings' = rec.encodings
    /\ result' = Response("recognize_face", rec.message, rec.student_id, NoToken)
    /\ probe' = <<raw>>
    /\ verdict' = <<[success |-> rec.success, confidence |-> rec.confidence]>>
    /\ UNCHANGED <<now, session, attendance_records, students, issued,
                   transactions>>

RecognizeNext ==
    \/ \E raw \in RawImages : recognize_image(raw)
    \/ \E sid \in SessionIds, im \in ContentIsImage, raw \in RawImages :
            kiosk_face_check_in(sid, im, generate_encoding(raw))

SpecRecognize == RecognizeInit /\ [][RecognizeNext]_vars

\* ================================================ the check-in window rule
\* Window bounds a session row holds: none, the bounds start_session
\* computes, and those bounds with the end moved by end_session.
Windows ==
    { <<NoTime, NoTime>>,
      <<ScheduledStart - ATTENDANCE_CHECK_IN_WINDOW_BEFORE * SecondsPerMinute,
        ScheduledStart + ATTENDANCE_CHECK_IN_WINDOW_AFTER * SecondsPerMinute>>,
      <<ScheduledStart - ATTENDANCE_CHECK_IN_WINDOW_BEFORE * SecondsPerMinute,
        ScheduledStart + 6 * SecondsPerMinute>> }
\* Clock readings one second before, at, and one second after each bound.
WindowClock ==
    { b + d : b \in {w[1] : w \in Windows \ {<<NoTime, NoTime>>}}
                       \cup {w[2] : w \in Windows \ {<<NoTime, NoTime>>}},
              d \in {0 - 1, 0, 1} }

\* A session row in any status, with attendance enabled or not.
WindowInit ==
    /\ now \in WindowClock
    /\ \E st \in SessionStatus, en \in BOOLEAN, w \in Windows :
          session = [status |-> st, attendance_enabled |-> en,
                     check_in_started_at |-> w[1], check_in_ended_at |-> w[2],
                     qr_code_data |-> <<>>, qr_code_generated_at |-> NoTime,
                     qr_code_expires_at |-> NoTime,
                     present_count |-> 0, late_count |-> 0, absent_count |-> 0]
    /\ attendance_records = <<>>
    /\ face_encodings = <<EnrolledEncoding(Student1, 0)>>
    /\ students = [s \in {Student1} |-> [is_face_enrolled |-> TRUE]]
    /\ issued = [n |-> 0, refreshed |-> 0]
    /\ result = Response("none", "none", 0, NoToken)
    /\ probe = <<>>
    /\ verdict = <<>>
    /\ transactions = <<>>

\* The clock moves to a later reading.
window_tick ==
    /\ \E t \in WindowClock : t > now /\ now' = t
    /\ UNCHANGED <<session, attendance_records, face_encodings, students,
                   issued, result, probe, verdict, transactions>>

\* session.can_check_in is read at the current time.
read_can_check_in ==
    /\ probe' = <<now>>
    /\ verdict' = <<can_check_in(session, now)>>
    /\ UNCHANGED <<now, session, attendance_records, face_encodings, students,
                   issued, result, transactions>>

WindowNext == window_tick \/ read_can_check_in

SpecWindow == WindowInit /\ [][WindowNext]_vars

\* ===================================================== starting a session
\* Times at which the lecturer starts the session and the window is read:
\* 08:49, 08:55, 09:03, 09:10 and 09:20.
StartClock ==
    { ScheduledStart - 11 * SecondsPerMinute, ScheduledStart - 5 * SecondsPerMinute,
      ScheduledStart + 3 * SecondsPerMinute, ScheduledStart + 10 * SecondsPerMinute,
      ScheduledStart + 20 * SecondsPerMinute }

\* The scheduled session of Init, at any of the times of StartClock.
StartInit ==
    /\ now \in StartClock
    /\ session = [status |-> "scheduled", attendance_enabled |-> TRUE,
                  check_in_started_at |-> NoTime, check_in_ended_at |-> NoTime,
                  qr_code_data |-> <<>>, qr_code_generated_at |-> NoTime,
                  qr_code_expires_at |-> NoTime,
                  present_count |-> 0, late_count |-> 0, absent_count |-> 0]
    /\ attendance_records = <<>>
    /\ face_encodings = <<EnrolledEncoding(Student1, 0)>>
    /\ students = [s \in {Student1} |-> [is_face_enrolled |-> TRUE]]
    /\ issued = [n |-> 0, refreshed |-> 0]
    /\ result = Response("none", "none", 0, NoToken)
    /\ probe = <<>>
    /\ verdict = <<>>
    /\ transactions = <<>>

\* The clock moves to a later reading of StartClock.
start_tick ==
    /\ \E t \in StartClock : t > now /\ now' = t
    /\ UNCHANGED <<session, attendance_records, face_encodings, students,
                   issued, result, probe, verdict, transactions>>

StartNext ==
    \/ start_tick
    \/ \E l \in Lecturers, sid \in SessionIds : start_session(l, sid)
    \/ \E l \in Lecturers, sid \in SessionIds : end_session(l, sid)
    \/ \E sid \in SessionIds, n \in StudentNumbers : kiosk_qr_check_in(sid, n)
    \/ read_can_check_in

SpecStart == StartInit /\ [][StartNext]_vars

\* ===================================== check-ins over hand-marked records
\* The clock moves to a later reading of LateClock.
late_tick ==
    /\ \E t \in LateClock : t > now /\ now' = t
    /\ UNCHANGED <<session, attendance_records, face_encodings, students,
                   issued, result, probe, verdict, transactions>>

\* Check-ins and manual marks follow one another while the session runs.
OverwriteNext ==
    \/ late_tick
    \/ \E st \in Students, sid \in SessionIds, im \in ContentIsImage, img \in Images :
            check_in_with_face(st, sid, im, img)
    \/ \E sid \in SessionIds, im \in ContentIsImage, img \in Images :
            kiosk_face_check_in(sid, im, img)
    \/ \E sid \in SessionIds, n \in StudentNumbers : kiosk_qr_check_in(sid, n)
    \/ \E l \in Lecturers, sid \in SessionIds, st \in StudentNumbers,
          status \in MarkStatuses, reason \in Reasons :
            manual_mark_attendance(l, sid, st, status, reason)

SpecOverwrite == LateInit /\ [][OverwriteNext]_vars

\* ================================================ manual marks at any time
\* The lecturer starts, ends, cancels and postpones the session, the kiosk
\* checks students in by number and the lecturer marks them by hand, in any
\* order.
ManualNext ==
    \/ start_tick
    \/ \E l \in Lecturers, sid \in SessionIds : start_session(l, sid)
    \/ \E l \in Lecturers, sid \in SessionIds : end_session(l, sid)
    \/ \E l \in Lecturers, sid \in SessionIds : cancel_session(l, sid)
    \/ postpone_session
    \/ \E sid \in SessionIds, n \in StudentNumbers : kiosk_qr_check_in(sid, n)
    \/ \E l \in Lecturers, sid \in SessionIds, st \in StudentNumbers,
          status \in MarkStatuses, reason \in Reasons :
            manual_mark_attendance(l, sid, st, status, reason)

SpecManual == StartInit /\ [][ManualNext]_vars

\* ===================================================== match statistics
\* Faces shown to the recognizer: at distance 0, 0.15, 0.30, 0.45 and 0.60
\* (the tolerance itself, confidence 0) from the stored encoding, and one
\* just beyond the tolerance.
StatImages ==
    { [error |-> "", enc |-> e] :
        e \in {0, 15, 30, 45, FACE_RECOGNITION_TOLERANCE,
               FACE_RECOGNITION_TOLERANCE + 1} }

\* One student with one stored encoding that has never matched; probe keeps
\* the confidences of the successful matches, in order.
MatchStatsInit ==
    /\ now = ScheduledStart
    /\ session = [status |-> "scheduled", attendance_enabled |-> TRUE,
                  check_in_started_at |-> NoTime, check_in_ended_at |-> NoTime,
                  qr_code_data |-> <<>>, qr_code_generated_at |-> NoTime,
                  qr_code_expires_at |-> NoTime,
                  present_count |-> 0, late_count |-> 0, absent_count |-> 0]
    /\ attendance_records = <<>>
    /\ face_encodings = <<EnrolledEncoding(Student1, 0)>>
    /\ students = [s \in {Student1} |-> [is_face_enrolled |-> TRUE]]
    /\ issued = [n |-> 0, refreshed |-> 0]
    /\ result = Response("none", "none", 0, NoToken)
    /\ probe = <<>>
    /\ verdict = <<>>
    /\ transactions = <<>>

\* FaceRecognitionService.recognize_face(image_data, None, db), the call
\* that updates the statistics of the matched row and commits.
recognize_and_count(image) ==
    LET rec == recognize_face(image, face_encodings) IN
    /\ Len(probe) < MaxStats
    /\ face_encodings' = rec.encodings
    /\ result' = Response("recognize_face", rec.message, rec.student_id, NoToken)
    /\ probe' = IF rec.success THEN Append(probe, rec.confidence) ELSE probe
    /\ verdict' = <<rec.confidence>>
    /\ UNCHANGED <<now, session, attendance_records, students, issued,
                   transactions>>

MatchStatsNext == \E img \in StatImages : recognize_and_count(img)

SpecMatchStats == MatchStatsInit /\ [][MatchStatsNext]_vars

\* ======================================================= excused absences
\* AttendanceRecord.excuse_absence(reason, approved_by, document_url)
AttendanceRecord_excuse_absence(r) ==
    [r EXCEPT !.status = "excused", !.is_excused = TRUE]

\* AttendanceRecord.attendance_display; the minutes of the "Late (n min)"
\* label are left out.
attendance_display(r) ==
    IF r.is_excused THEN "Excused Absence"
    ELSE IF r.status = "late" THEN "Late"
    ELSE IF r.status = "present" THEN "Present"
    ELSE IF r.status = "absent" THEN "Absent"
    ELSE "Excused"

\* AttendanceRecord.excuse_absence called on the record of a student; no
\* request handler wraps it.
excuse_absence(student) ==
    LET i == first_record(attendance_records, student) IN
    /\ i # 0
    /\ attendance_records' =
          [attendance_records EXCEPT ![i] = AttendanceRecord_excuse_absence(@)]
    /\ result' = Response("excuse", "ok", student, NoToken)
    /\ UNCHANGED <<now, session, face_encodings, students, issued, probe,
                   verdict, transactions>>

\* Check-ins, manual marks and excuses follow one another while the session
\* runs.
ExcuseNext ==
    \/ late_tick
    \/ \E sid \in SessionIds, im \in ContentIsImage, img \in Images :
            kiosk_face_check_in(sid, im, img)
    \/ \E sid \in SessionIds, n \in StudentNumbers : kiosk_qr_check_in(sid, n)
    \/ \E l \in Lecturers, sid \in SessionIds, st \in StudentNumbers,
          status \in MarkStatuses, reason \in Reasons :
            manual_mark_attendance(l, sid, st, status, reason)
    \/ \E st \in Students : excuse_absence(st)

\* The session was started and no student has a record yet.
ExcuseInit == LateInit /\ attendance_records = <<>>

SpecExcuse == ExcuseInit /\ [][ExcuseNext]_vars

\* ============================================ whose face, whose check-in
\* Faces shown at a face check-in: the first student's, the second
\* student's, a stranger's, and a photo with no face.
OwnerImages ==
    { [error |-> "", enc |-> 0], [error |-> "", enc |-> 100],
      [error |-> "", enc |-> 500], [error |-> "No face detected", enc |-> 0] }

\* The session was started; the first student is face-enrolled, the second
\* is enrolled with an embedding of their own or not enrolled at all.
FaceOwnerInit ==
    /\ now \in {ScheduledStart, ScheduledStart + 10 * SecondsPerMinute}
    /\ issued = [n |-> 1, refreshed |-> 0]
    /\ session = ClassSession_generate_qr_code(
                    ClassSession_start_session(
                        [status |-> "scheduled", attendance_enabled |-> TRUE,
                         check_in_started_at |-> NoTime,
                         check_in_ended_at |-> NoTime,
                         qr_code_data |-> <<>>, qr_code_generated_at |-> NoTime,
                         qr_code_expires_at |-> NoTime,
                         present_count |-> 0, late_count |-> 0,
                         absent_count |-> 0],
                        ATTENDANCE_CHECK_IN_WINDOW_BEFORE,
                        ATTENDANCE_CHECK_IN_WINDOW_AFTER),
                    QR_CODE_EXPIRY_MINUTES, ScheduledStart - SecondsPerMinute, 1)
    /\ attendance_records = <<>>
    /\ \E enrolled \in BOOLEAN :
          /\ face_encodings =
                IF enrolled
                THEN <<EnrolledEncoding(Student1, 0), EnrolledEncoding(Student2, 100)>>
                ELSE <<EnrolledEncoding(Student1, 0)>>
          /\ students = [s \in {Student1, Student2} |->
                            [is_face_enrolled |-> s = Student1 \/ enrolled]]
    /\ result = Response("none", "none", 0, NoToken)
    /\ probe = <<>>
    /\ verdict = <<>>
    /\ transactions = <<>>

\* Either student checks in by face, with any of the faces, and the
\* lecturer marks students by hand.
FaceOwnerNext ==
    \/ \E st \in Students, sid \in SessionIds, im \in ContentIsImage,
          img \in OwnerImages : check_in_with_face(st, sid, im, img)
    \/ \E l \in Lecturers, sid \in SessionIds, st \in StudentNumbers,
          status \in {"absent", "excused"}, reason \in Reasons :
            manual_mark_attendance(l, sid, st, status, reason)

SpecFaceOwner == FaceOwnerInit /\ [][FaceOwnerNext]_vars

\* ================================================================ claims
\* A step that is the handling of one request of the given kind.
Request(op) == now' = now /\ result'.op = op
CheckInOps == {"check_in_face", "check_in_qr", "kiosk_face", "kiosk_qr"}
CheckInRequest == now' = now /\ result'.op \in CheckInOps
Tallies(s) == <<s.present_count, s.late_count, s.absent_count>>
\* The clock is inside the session's check-in window.
InWindow ==
    /\ session.check_in_started_at # NoTime
    /\ session.check_in_ended_at # NoTime
    /\ session.check_in_started_at <= now
    /\ now <= session.check_in_ended_at
\* Student st has a record that denotes presence.
HasPresence(st) ==
    \E i \in 1 .. Len(attendance_records) :
        /\ attendance_records[i].student_id = st
        /\ attendance_records[i].status \in {"present", "late"}

\* C1: start succeeds only on a scheduled session; on an in_progress,
\* completed, cancelled or postponed session it is rejected with
\* InvalidTransition and leaves status, window bounds and QR token unchanged.
C1_StartOnlyFromScheduled ==
    [][ (Request("start") /\ session.status # "scheduled")
            => /\ result'.outcome = "InvalidTransition"
               /\ session'.status = session.status
               /\ session'.check_in_started_at = session.check_in_started_at
               /\ session'.check_in_ended_at = session.check_in_ended_at
               /\ session'.qr_code_data = session.qr_code_data ]_vars

\* C2: cancel and postpone succeed only on a scheduled session; on any other
\* status they are rejected and the status is unchanged, so an in_progress
\* session never becomes cancelled or postponed.
C2_CancelOnlyFromScheduled ==
    [][ ((Request("cancel") \/ Request("postpone")) /\ session.status # "scheduled")
            => /\ result'.outcome # "ok"
               /\ session'.status = session.status ]_vars

\* C3: completed and cancelled are terminal: once the status is completed or
\* cancelled no operation changes it again.
C3_TerminalStates ==
    [][ session.status \in {"completed", "cancelled"}
            => session'.status = session.status ]_vars

\* C4: end succeeds only on an in_progress session; on a scheduled,
\* completed, cancelled or postponed session it is rejected with
\* InvalidTransition and the session row (status, window bounds, tallies) and
\* the attendance records are unchanged.
C4_EndOnlyFromInProgress ==
    [][ Request("end")
            => IF session.status = "in_progress"
               THEN result'.outcome = "ok" /\ session'.status = "completed"
               ELSE /\ result'.outcome = "InvalidTransition"
                    /\ session' = session
                    /\ attendance_records' = attendance_records ]_vars

\* C4 witness: an end request was rejected on a session that is not in
\* progress.
C4_Witness ==
    /\ result.op = "end"
    /\ result.outcome = "InvalidTransition"
    /\ session.status = "scheduled"

\* C5: an automated check-in writes a record only if the session is
\* in_progress, attendance is enabled and the clock is inside the check-in
\* window; otherwise it is rejected and records and tallies are unchanged.
C5_CheckInOnlyWhenOpen ==
    [][ CheckInRequest
            => \/ /\ session.status = "in_progress"
                  /\ session.attendance_enabled
                  /\ InWindow
               \/ /\ result'.outcome \in {"SessionNotActive", "WindowClosed",
                                          "NotEnrolled"}
                  /\ attendance_records' = attendance_records
                  /\ session' = session ]_vars

\* C5 witness: a check-in arrived at an in_progress session after the window
\* had closed and was turned away.
C5_Witness ==
    /\ result.op \in CheckInOps
    /\ result.outcome = "WindowClosed"
    /\ session.status = "in_progress"
    /\ now > session.check_in_ended_at

\* C6: a QR string the session minted (by start, refresh or the qr-code
\* read) passes the QR check-in's token verification when it is presented
\* before its expiry; stated for the string on display, the latest minted.
C6_IssuedTokensAccepted ==
    [][ ( /\ Request("check_in_qr")
          /\ issued.n >= 1
          /\ result'.token = IssuedToken(issued.n)
          /\ session.qr_code_data = <<IssuedToken(issued.n)>>
          /\ now < session.qr_code_expires_at )
            => result'.outcome # "TokenInvalidOrExpired" ]_vars

\* C8: after a refresh, a QR check-in that presents a string minted before
\* the refresh writes nothing, and when it gets as far as the token
\* verification it is rejected as invalid, also before the old string's own
\* expiry.
C8_OldTokenRejectedAfterRefresh ==
    [][ ( /\ Request("check_in_qr")
          /\ \E i \in 1 .. issued.refreshed - 1 : result'.token = IssuedToken(i) )
            => /\ attendance_records' = attendance_records
               /\ session' = session
               /\ result'.outcome \in {"SessionNotActive", "WindowClosed",
                                       "TokenInvalidOrExpired"}
               /\ (session.status = "in_progress" /\ InWindow)
                      => result'.outcome = "TokenInvalidOrExpired" ]_vars

\* C8 witness: the first string was presented to an open session after a
\* refresh and was rejected as invalid, before its own expiry: no string is
\* minted before the first clock reading, so none expires before
\* FirstReading + QR_CODE_EXPIRY_MINUTES.
C8_Witness ==
    /\ result.op = "check_in_qr"
    /\ result.outcome = "TokenInvalidOrExpired"
    /\ issued.refreshed >= 2
    /\ result.token = IssuedToken(1)
    /\ session.status = "in_progress"
    /\ now < FirstReading + QR_CODE_EXPIRY_MINUTES * SecondsPerMinute

\* C9: when (session, student) already has a present or late record, a
\* further check-in that the session would otherwise take (open window, a
\* known student, an unexpired QR string of the session) is rejected as
\* AlreadyCheckedIn, and the records and the tallies are unchanged.
C9_RepeatCheckInRejected ==
    [][ ( /\ CheckInRequest
          /\ session.status = "in_progress"
          /\ InWindow
          /\ result'.student \in Students
          /\ HasPresence(result'.student)
          /\ result'.op = "check_in_face"
                => students[result'.student].is_face_enrolled
          /\ result'.op = "check_in_qr"
                => /\ issued.n >= 1
                   /\ result'.token = IssuedToken(issued.n)
                   /\ now < session.qr_code_expires_at )
            => /\ result'.outcome = "AlreadyCheckedIn"
               /\ attendance_records' = attendance_records
               /\ Tallies(session') = Tallies(session) ]_vars

\* C10: once a record is manually marked, no later automated check-in changes
\* its status.
C10_ManualAlwaysWins ==
    [][ CheckInRequest
            => \A i \in 1 .. Len(attendance_records) :
                  attendance_records[i].manually_marked
                      => attendance_records'[i].status
                            = attendance_records[i].status ]_vars

\* C10 as amended: once a record is manually marked present or late, no later
\* automated check-in changes its status (a manual absent or excused mark is
\* overwritten by the next accepted check-in).
C10_ManualPresenceStands ==
    [][ CheckInRequest
            => \A i \in 1 .. Len(attendance_records) :
                  ( /\ attendance_records[i].manually_marked
                    /\ attendance_records[i].status \in {"present", "late"} )
                      => attendance_records'[i] = attendance_records[i] ]_vars

\* C10 witness: a check-in met a record manually marked late and was turned
\* away, the record still late.
C10_Witness ==
    /\ result.op \in CheckInOps
    /\ result.outcome = "AlreadyCheckedIn"
    /\ \E i \in 1 .. Len(attendance_records) :
          /\ attendance_records[i].student_id = result.student
          /\ attendance_records[i].manually_marked
          /\ attendance_records[i].status = "late"

\* C7: verification for session S at time t is true exactly when the token
\* decrypts to a well-formed payload, the session id in it is S and
\* t <= issued_at + expiry_minutes: a token issued at T is valid at T+14:59
\* and at T+15:00, invalid at T+15:01, and never valid for another session.
C7_TokenValidUntilExpiry ==
    verdict # <<>>
        => ( verdict[1].valid
               <=> /\ probe.kind \in {"generated", "hours", "date"}
                   /\ probe.embedded = verdict[1].session_id
                   /\ verdict[1].at <= probe.issued_at
                                          + QR_CODE_EXPIRY_MINUTES * SecondsPerMinute )

\* C11: with requests served one at a time, the table holds at most one
\* attendance record for each (session, student): a check-in or a manual
\* mark on a pair that has a record changes that record in place.
C11_OneRecordPerPair ==
    \A st \in Students :
        Cardinality({i \in 1 .. Len(attendance_records) :
                        attendance_records[i].student_id = st}) <= 1

\* C11 witness: the student's only record carries both a face check-in and
\* a manual mark, so the second of the two operations updated it in place.
C11_Witness ==
    /\ Len(attendance_records) = 1
    /\ attendance_records[1].check_in_method = "face_recognition"
    /\ attendance_records[1].manually_marked

\* C12: when check-in requests for the same (session, student) overlap, at
\* most one of them creates a record and the table never holds two records
\* for the pair: the request that comes second is refused.
C12_OneCheckInCreates ==
    /\ \A st \in Students :
          Cardinality({i \in 1 .. Len(attendance_records) :
                          attendance_records[i].student_id = st}) <= 1
    /\ Cardinality({r \in 1 .. Len(transactions) :
                       /\ transactions[r].op \in {"check_in_face", "kiosk_qr"}
                       /\ transactions[r].outcome = "ok"
                       /\ transactions[r].seen = 0}) <= 1

\* C13: of the start requests that overlap on a scheduled session, at most
\* one succeeds (SpecRace has no end and no cancel, so a start that arrives
\* after another has committed meets an in_progress session).
C13_OneStartSucceeds ==
    Cardinality({r \in 1 .. Len(transactions) :
                    /\ transactions[r].op = "start"
                    /\ transactions[r].outcome = "ok"}) <= 1

\* C14: after every committed attendance write (a check-in, a manual mark,
\* the end of the session) the session's cached present, late and absent
\* counts are the numbers of stored records with those statuses.
C14_TalliesMatchRecords ==
    [][ ( /\ \E op \in CheckInOps \cup {"manual_mark", "end"} : Request(op)
          /\ result'.outcome = "ok" )
            => Tallies(session') =
                  <<CountStatus(attendance_records', "present"),
                    CountStatus(attendance_records', "late"),
                    CountStatus(attendance_records', "absent")>> ]_vars

\* C15: a check-in at time t to a session that starts at s, with threshold
\* L, is max(0, floor((t - s) / 60 s)) minutes late, is late exactly when
\* that exceeds L, and writes status late when it is late and present
\* otherwise; the record it creates, and every record it writes as late,
\* stores these minutes and the flag.  The two lateness helpers return the
\* same minutes and the same test for any threshold.
C15_LatenessRule ==
    /\ [][ (CheckInRequest /\ result'.outcome = "ok")
             => LET d == (now - ScheduledStart) \div SecondsPerMinute
                    expected == IF d > 0 THEN d ELSE 0
                    late == expected > LATE_ARRIVAL_THRESHOLD
                    i == first_record(attendance_records', result'.student)
                    r == attendance_records'[i]
                IN /\ i # 0
                   /\ r.status = IF late THEN "late" ELSE "present"
                   /\ (late \/ first_record(attendance_records, result'.student) = 0)
                        => /\ r.minutes_late = expected
                           /\ r.is_late = late ]_vars
    /\ [](verdict # <<>>
            => LET d == (now - ScheduledStart) \div SecondsPerMinute
                   expected == IF d > 0 THEN d ELSE 0
               IN /\ verdict[1].minutes = expected
                  /\ verdict[1].late
                       <=> expected > probe[1].late_threshold_minutes)

\* C15 witness: a check-in ten minutes after the start was written as late
\* with minutes_late 10.
C15_Witness ==
    /\ result.op \in CheckInOps
    /\ result.outcome = "ok"
    /\ now = ScheduledStart + 10 * SecondsPerMinute
    /\ attendance_records[1].status = "late"
    /\ attendance_records[1].minutes_late = 10
    /\ attendance_records[1].is_late

\* C16: after any sequence of enrollments and deactivations, each person has
\* at most one active embedding marked primary.
C16_OnePrimaryPerPerson ==
    \A s \in Students :
        Cardinality({i \in ActiveRows(s, face_encodings) :
                        face_encodings[i].is_primary}) <= 1

\* C17: an enrollment insert for a person is rejected as a duplicate if and
\* only if some active embedding of that person lies at distance strictly
\* below 0.3 from the new embedding; on rejection no embedding is stored and
\* the primary and face-enrolled flags are unchanged.
C17_DuplicateRejection ==
    [][(/\ Request("upload_face_photo")
        /\ probe'[1].error = ""
        /\ probe'[1].angle \in valid_angles)
       => LET person == result'.student
              near == {i \in 1 .. Len(face_encodings) :
                         /\ face_encodings[i].student_id = person
                         /\ face_encodings[i].is_active
                         /\ calculate_encoding_distance(
                                probe'[1].enc, face_encodings[i].encoding) < 30}
              rejected == result'.outcome = "This photo appears to be a duplicate"
          IN /\ rejected <=> near # {}
             /\ rejected => face_encodings' = face_encodings /\ students' = students
             /\ ~rejected => Len(face_encodings') = Len(face_encodings) + 1]_vars
\* A duplicate was rejected while an inactive embedding of the same person
\* is stored.
C17_Witness ==
    /\ result.op = "upload_face_photo"
    /\ result.outcome = "This photo appears to be a duplicate"
    /\ \E i \in 1 .. Len(face_encodings) :
            face_encodings[i].student_id = result.student /\ ~face_encodings[i].is_active

\* C18: a deactivated embedding stays stored, is never again returned as a
\* recognition match, is not counted in enrollment completeness or captured
\* angles, and is not considered by the duplicate check; deactivating one
\* embedding changes no field of any other embedding.
C18_DeactivatedIsInert ==
    [][LET n == Len(face_encodings)
           inactive == {i \in 1 .. n : ~face_encodings[i].is_active}
           live(person) == {i \in 1 .. n : /\ face_encodings'[i].student_id = person
                                           /\ face_encodings'[i].is_active}
       IN
       /\ Len(face_encodings') >= n
       /\ \A i \in inactive : face_encodings'[i] = face_encodings[i]
       /\ (Request("recognize_face") /\ result'.outcome = "Face recognized")
            => \E i \in 1 .. n :
                  /\ face_encodings[i].is_active
                  /\ face_encodings[i].student_id = result'.student
                  /\ face_encodings'[i].match_count = face_encodings[i].match_count + 1
       /\ Request("get_face_enrollment_status")
            => LET progress == verdict'[1].progress IN
               /\ progress.total_photos = Cardinality(live(result'.student))
               /\ progress.is_complete =
                      (Cardinality(live(result'.student)) >= MIN_ENROLLMENT_PHOTOS)
               /\ Len(progress.captured_angles) = Cardinality(live(result'.student))
               /\ \A k \in 1 .. Len(progress.captured_angles) :
                      \E i \in live(result'.student) :
                          face_encodings'[i].capture_angle = progress.captured_angles[k]
       /\ (/\ Request("upload_face_photo")
           /\ probe'[1].error = "" /\ probe'[1].angle \in valid_angles
           /\ \A i \in 1 .. n :
                 (/\ face_encodings[i].student_id = result'.student
                  /\ calculate_encoding_distance(
                        probe'[1].enc, face_encodings[i].encoding) < 30)
                 => i \in inactive)
            => Len(face_encodings') = n + 1
       /\ (Request("delete_face_photo") /\ result'.outcome = "Photo deleted successfully")
            => /\ Len(face_encodings') = n
               /\ \A j \in 1 .. n : j # probe'[1] => face_encodings'[j] = face_encodings[j]
               /\ face_encodings'[probe'[1]] =
                      [face_encodings[probe'[1]] EXCEPT !.is_active = FALSE]
       /\ Request("reset_face_enrollment")
            => /\ Len(face_encodings') = n
               /\ \A j \in 1 .. n :
                     face_encodings[j].student_id # result'.student
                        => face_encodings'[j] = face_encodings[j]
               /\ \A j \in 1 .. n :
                     face_encodings[j].student_id = result'.student
                        => face_encodings'[j] =
                              [face_encodings[j] EXCEPT !.is_active = FALSE]
      ]_vars
\* A face was recognized although a deactivated embedding lies nearer to it
\* than every active one.
C18_Witness ==
    /\ result.op = "recognize_face"
    /\ result.outcome = "Face recognized"
    /\ \E i \in 1 .. Len(face_encodings) :
          /\ ~face_encodings[i].is_active
          /\ \A j \in 1 .. Len(face_encodings) :
                face_encodings[j].is_active =>
                    calculate_encoding_distance(probe[1].enc, face_encodings[i].encoding)
                      < calculate_encoding_distance(probe[1].enc, face_encodings[j].encoding)

\* C19: gallery search returns the person owning an active embedding whose
\* distance to the query is minimal over all active embeddings, and accepts
\* it if and only if that distance is <= tolerance (at exactly the tolerance
\* the match has confidence 0); among equal minimal distances the first
\* embedding in iteration order wins.
C19_GallerySearch ==
    [][Request("recognize_face")
       => LET n == Len(face_encodings)
              active == {i \in 1 .. n : face_encodings[i].is_active}
              dist(i) == calculate_encoding_distance(
                            probe'[1].enc, face_encodings[i].encoding)
              minimal == {i \in active : \A j \in active : dist(i) <= dist(j)}
              accepted == result'.outcome = "Face recognized"
          IN
          IF active = {} THEN ~accepted
          ELSE LET first == CHOOSE i \in minimal : \A j \in minimal : i <= j IN
               /\ accepted <=> dist(first) <= 60
               /\ accepted =>
                    /\ result'.student = face_encodings[first].student_id
                    /\ verdict'[1][1] * 60 = (60 - dist(first)) * verdict'[1][2]
                    /\ face_encodings'[first].match_count =
                          face_encodings[first].match_count + 1
                    /\ \A j \in 1 .. n :
                          j # first => face_encodings'[j] = face_encodings[j]
               /\ ~accepted =>
                    /\ result'.student = 0
                    /\ verdict'[1] = <<>>
                    /\ face_encodings' = face_encodings]_vars
\* A match at exactly the tolerance, with confidence 0.
C19_Witness ==
    /\ result.op = "recognize_face"
    /\ result.outcome = "Face recognized"
    /\ verdict = << <<0, 1>> >>
    /\ \E i \in 1 .. Len(face_encodings) :
          /\ face_encodings[i].is_active
          /\ face_encodings[i].student_id = result.student
          /\ calculate_encoding_distance(probe[1].enc, face_encodings[i].encoding)
                = FACE_RECOGNITION_TOLERANCE

\* C20: a successful enrollment marks the person face-enrolled only if, after
\* the insert, the person has at least MIN_ENROLLMENT_PHOTOS active
\* embeddings; with fewer the face-enrolled flag stays false.
C20_EnrolledOnlyWhenComplete ==
    [][(/\ Request("upload_face_photo")
        /\ ~students[result'.student].is_face_enrolled
        /\ students'[result'.student].is_face_enrolled)
       => Cardinality({i \in 1 .. Len(face_encodings') :
                         /\ face_encodings'[i].student_id = result'.student
                         /\ face_encodings'[i].is_active})
            >= MIN_ENROLLMENT_PHOTOS]_vars

\* C21: the effects of one enrollment become visible all at once: no status
\* read observes the new embedding stored while its primary flag or the
\* person's face-enrolled flag still has its value from before the enrollment.
C21_EnrollmentVisibleAtOnce ==
    [][Request("get_face_enrollment_status")
       => (verdict'[1].progress.total_photos >= 1
             => /\ verdict'[1].is_enrolled
                /\ verdict'[1].progress.has_primary)]_vars

\* C22: when n recognition calls that match the same embedding have run
\* concurrently, the embedding's match_count is exactly n higher than before.
C22_NoLostUpdate ==
    (\A r \in 1 .. Len(transactions) : transactions[r].pc = "done")
    => \A i \in 1 .. Len(face_encodings) :
          face_encodings[i].match_count =
              Cardinality({r \in 1 .. Len(transactions) :
                              /\ transactions[r].op = "recognize_face"
                              /\ transactions[r].outcome = "Face recognized"
                              /\ transactions[r].seen.id = i})

\* C23: a manual mark is permitted for every existing record status (and when
\* no record exists) and for every session status; afterwards the record for
\* (session, person) has the requested status, manually_marked = true, and the
\* acting lecturer and reason stamped on it.
C23_ManualMarkAlwaysApplies ==
    [][/\ Request("manual_mark") => result'.outcome = "ok"
       /\ \A l \in Lecturers, st \in StudentNumbers, status \in MarkStatuses,
             reason \in Reasons :
             (/\ Request("manual_mark")
              /\ result'.student = st
              /\ manual_mark_attendance(l, SessionId, st, status, reason))
             => LET i == first_record(attendance_records', st) IN
                /\ i # 0
                /\ attendance_records'[i].status = status
                /\ attendance_records'[i].manually_marked
                /\ attendance_records'[i].marked_by_lecturer_id = l
                /\ attendance_records'[i].override_reason = reason]_vars
\* A hand-marked absence written over the record of a check-in, in a
\* completed session.
C23_Witness ==
    /\ result.op = "manual_mark"
    /\ result.outcome = "ok"
    /\ session.status = "completed"
    /\ \E i \in 1 .. Len(attendance_records) :
          /\ attendance_records[i].status = "absent"
          /\ attendance_records[i].manually_marked
          /\ attendance_records[i].check_in_method \in {"face_recognition", "qr_code"}

\* C24: no automated check-in (face, QR, kiosk face, kiosk QR) writes status
\* excused or absent: every record such a check-in creates or changes is
\* present or late afterwards, and a record becomes excused only in a manual
\* mark.
C24_CheckInWritesPresence ==
    [][/\ CheckInRequest
          => \A i \in 1 .. Len(attendance_records') :
                (i > Len(attendance_records)
                    \/ attendance_records'[i] # attendance_records[i])
                => attendance_records'[i].status \in {"present", "late"}
       /\ \A i \in 1 .. Len(attendance_records') :
             (/\ attendance_records'[i].status = "excused"
              /\ (i > Len(attendance_records)
                    \/ attendance_records[i].status # "excused"))
             => Request("manual_mark")]_vars
\* A check-in was accepted over a record a lecturer had marked absent or
\* excused by hand.
C24_Witness ==
    /\ result.op \in CheckInOps
    /\ result.outcome = "ok"
    /\ \E i \in 1 .. Len(attendance_records) :
          /\ attendance_records[i].student_id = result.student
          /\ attendance_records[i].override_reason = "sick note"
          /\ attendance_records[i].check_in_method # "manual"
          /\ attendance_records[i].status \in {"present", "late"}

\* C25: recognition never raises: for an undecodable image, zero faces,
\* several faces, a face too small, an empty gallery and no match within
\* tolerance, recognize returns a rejection value carrying a reason, and on
\* every rejection no embedding's usage statistics and no attendance record
\* are changed.
C25_RecognitionRejects ==
    [][/\ Request("recognize_face")
          => LET raw == probe'[1]
                 usable == /\ raw.decodable /\ raw.faces = 1
                           /\ raw.face_size >= 100 /\ raw.encodable
                 within == \E i \in 1 .. Len(face_encodings) :
                              /\ face_encodings[i].is_active
                              /\ calculate_encoding_distance(
                                    raw.enc, face_encodings[i].encoding) <= 60
                 rejected == ~verdict'[1].success
             IN /\ rejected <=> ~(usable /\ within)
                /\ rejected
                     => /\ result'.outcome \notin {"", "Face recognized"}
                        /\ result'.student = 0
                        /\ verdict'[1].confidence = <<>>
                        /\ face_encodings' = face_encodings
                        /\ attendance_records' = attendance_records
       /\ (Request("kiosk_face") /\ result'.outcome = "Rejected")
          => /\ face_encodings' = face_encodings
             /\ attendance_records' = attendance_records
             /\ session' = session]_vars
\* The kiosk rejected a face while the only stored photo is deactivated.
C25_Witness ==
    /\ result.op = "kiosk_face"
    /\ result.outcome = "Rejected"
    /\ face_encodings # <<>>
    /\ \A i \in 1 .. Len(face_encodings) : ~face_encodings[i].is_active

\* C26: can_check_in evaluated at time now is true if and only if the status
\* is in_progress, attendance is enabled, and either no explicit window is
\* set or check_in_start <= now <= check_in_end, both bounds inclusive.
C26_CanCheckIn ==
    verdict # <<>>
    => (verdict[1] <=>
          /\ session.status = "in_progress"
          /\ session.attendance_enabled
          /\ \/ session.check_in_started_at = NoTime /\ session.check_in_ended_at = NoTime
             \/ /\ session.check_in_started_at <= probe[1]
                /\ probe[1] <= session.check_in_ended_at)
\* can_check_in was read true at the very end of the window.
C26_Witness ==
    /\ verdict = <<TRUE>>
    /\ probe = <<session.check_in_ended_at>>

\* C27: in every reachable state, a session that has never been successfully
\* started (still scheduled, or cancelled or postponed directly from
\* scheduled) has neither check-in window bound set: unset bounds stay unset
\* in every step that is not a successful start.
C27_NoWindowBeforeStart ==
    /\ [](session.status = "scheduled"
            => /\ session.check_in_started_at = NoTime
               /\ session.check_in_ended_at = NoTime)
    /\ [][(/\ session.check_in_started_at = NoTime
           /\ session.check_in_ended_at = NoTime
           /\ ~(Request("start") /\ result'.outcome = "ok"))
          => /\ session'.check_in_started_at = NoTime
             /\ session'.check_in_ended_at = NoTime]_vars
\* A session cancelled without ever being started, after an end was refused.
C27_Witness ==
    /\ session.status = "cancelled"
    /\ session.check_in_started_at = NoTime
    /\ session.check_in_ended_at = NoTime
    /\ result.op = "end"
    /\ result.outcome = "InvalidTransition"

\* C28: a successful start on a session with scheduled start S = 09:00 sets
\* status in_progress, check_in_start = 08:50 and check_in_end = 09:15,
\* whatever the time of the call; after a start at 08:55, can_check_in is true
\* at 08:55.
C28_StartSetsWindow ==
    [][/\ (Request("start") /\ result'.outcome = "ok")
          => /\ session'.status = "in_progress"
             /\ session'.check_in_started_at = 8 * 3600 + 50 * 60
             /\ session'.check_in_ended_at = 9 * 3600 + 15 * 60
       /\ (/\ probe' # probe \/ verdict' # verdict
           /\ now = 8 * 3600 + 55 * 60
           /\ session.status = "in_progress")
          => verdict' = <<TRUE>>]_vars
\* The session was started at 08:55 and can_check_in was read true at 08:55.
C28_Witness ==
    /\ now = 8 * 3600 + 55 * 60
    /\ result.op = "start"
    /\ result.outcome = "ok"
    /\ session.status = "in_progress"
    /\ session.check_in_started_at = 8 * 3600 + 50 * 60
    /\ session.check_in_ended_at = 9 * 3600 + 15 * 60
    /\ probe = <<now>>
    /\ verdict = <<TRUE>>

\* C29: after a successful end at time t the session's status is completed
\* and check_in_end equals t whatever the computed end bound was, and from
\* then on every check-in attempt for that session is rejected: a check-in
\* is accepted only while the session is in progress, and a completed
\* session is never put in progress again.
C29_EndClosesCheckIn ==
    /\ [][(Request("end") /\ result'.outcome = "ok")
          => /\ session'.status = "completed"
             /\ session'.check_in_ended_at = now]_vars
    /\ [][(CheckInRequest /\ result'.outcome = "ok")
          => session.status = "in_progress"]_vars
    /\ [][session.status = "completed"
          => session'.status # "in_progress"]_vars

\* C30: when a record of the student exists with status absent or excused,
\* an accepted check-in overwrites that record in place: its status becomes
\* late or present by the lateness rule, its method and check-in time are
\* those of the new check-in, is_late is set exactly when the status is late,
\* minutes_late is the lateness of the check-in when late and within the
\* threshold when present, every other record is unchanged and no second
\* record is created.
C30_OverwriteInPlace ==
    [][\A i \in 1 .. Len(attendance_records) :
          (/\ CheckInRequest
           /\ result'.outcome = "ok"
           /\ i = first_record(attendance_records, result'.student)
           /\ attendance_records[i].status \in {"absent", "excused"})
          => /\ Len(attendance_records') = Len(attendance_records)
             /\ \A j \in 1 .. Len(attendance_records) :
                   j # i => attendance_records'[j] = attendance_records[j]
             /\ LET r == attendance_records'[i]
                IN /\ r.student_id = result'.student
                   /\ r.status = IF minutes_late_at(now) > LATE_ARRIVAL_THRESHOLD
                                 THEN "late" ELSE "present"
                   /\ r.check_in_method =
                         IF result'.op \in {"check_in_face", "kiosk_face"}
                         THEN "face_recognition" ELSE "qr_code"
                   /\ r.check_in_time = now
                   /\ r.is_late <=> r.status = "late"
                   /\ r.status = "late" => r.minutes_late = minutes_late_at(now)
                   /\ r.status = "present"
                         => r.minutes_late <= LATE_ARRIVAL_THRESHOLD]_vars
\* A check-in ten minutes after the start was accepted over the one record
\* of the student, which a lecturer had marked by hand: the record is late,
\* with the time and the lateness of the new check-in.
C30_Witness ==
    /\ result.op \in CheckInOps
    /\ result.outcome = "ok"
    /\ Len(attendance_records) = 1
    /\ attendance_records[1].student_id = result.student
    /\ attendance_records[1].manually_marked
    /\ attendance_records[1].status = "late"
    /\ attendance_records[1].is_late
    /\ attendance_records[1].check_in_time = now
    /\ attendance_records[1].minutes_late = 10

\* C31: the qr-code read on an in_progress session returns the stored token
\* and changes nothing while that token has not expired, and mints, stores
\* and returns a new token expiring QR_CODE_EXPIRY_MINUTES later once it has
\* expired; the token it returns is one that the check-in's token
\* verification accepts at the time of the read; a refresh always replaces
\* the stored token by a new one.
C31_QrReadAndRefresh ==
    /\ [][(Request("get_qr") /\ result'.outcome = "ok"
              /\ is_qr_code_valid(session, now))
          => /\ session' = session
             /\ result'.token = session.qr_code_data[1]]_vars
    /\ [][(Request("get_qr") /\ result'.outcome = "ok"
              /\ ~is_qr_code_valid(session, now))
          => /\ session'.qr_code_data # session.qr_code_data
             /\ session'.qr_code_data = <<result'.token>>
             /\ session'.qr_code_expires_at =
                   now + QR_CODE_EXPIRY_MINUTES * SecondsPerMinute]_vars
    /\ [][(Request("refresh") /\ result'.outcome = "ok")
          => /\ session'.qr_code_data # session.qr_code_data
             /\ session'.qr_code_data = <<result'.token>>]_vars
    /\ [][(Request("get_qr") /\ result'.outcome = "ok")
          => verify_qr_token(result'.token, SessionId,
                             QR_CODE_EXPIRY_MINUTES, now)]_vars

\* The sum of a sequence of rationals, in lowest terms.
RECURSIVE RatSum(_)
RatSum(cs) ==
    IF cs = <<>> THEN <<0, 1>>
    ELSE LET r == RatSum(Tail(cs))
         IN Rat(cs[1][1] * r[2] + r[1] * cs[1][2], cs[1][2] * r[2])
\* The arithmetic mean of a non-empty sequence of rationals.
RatMean(cs) == Rat(RatSum(cs)[1], RatSum(cs)[2] * Len(cs))

\* C32: after k successful matches of one embedding with confidences
\* c1..ck (confidences equal to 0 included), the embedding's match_count is
\* k and its average_confidence is (c1 + ... + ck) / k.
C32_RunningAverage ==
    /\ face_encodings[1].match_count = Len(probe)
    /\ Len(probe) > 0 => face_encodings[1].average_confidence = RatMean(probe)

\* C33: in every reachable state a record carries a face-match confidence
\* only if its check-in method is face recognition, and carries a
\* geolocation only if its check-in method is QR code.
C33_ChannelFields ==
    \A i \in 1 .. Len(attendance_records) :
        /\ attendance_records[i].face_confidence_score # <<>>
              => attendance_records[i].check_in_method = "face_recognition"
        /\ attendance_records[i].located
              => attendance_records[i].check_in_method = "qr_code"

\* C34: in every reachable state where both bounds of the check-in window
\* are set, check_in_started_at <= check_in_ended_at.
C34_WindowOrdered ==
    (session.check_in_started_at # NoTime /\ session.check_in_ended_at # NoTime)
        => session.check_in_started_at <= session.check_in_ended_at

\* C35: after any sequence of check-ins and manual marks, a record's is_late
\* flag is true if and only if its status is late, and minutes_late is 0
\* whenever the status is present.
C35_LateFlagMatchesStatus ==
    \A i \in 1 .. Len(attendance_records) :
        /\ attendance_records[i].is_late <=> attendance_records[i].status = "late"
        /\ attendance_records[i].status = "present"
              => attendance_records[i].minutes_late = 0

\* C36: after any sequence of check-ins, manual marks and excuses, a
\* record's is_excused flag is true if and only if its status is excused, so
\* the display label "Excused Absence" is shown exactly for the records
\* whose status is excused.
C36_ExcusedFlagMatchesStatus ==
    \A i \in 1 .. Len(attendance_records) :
        /\ attendance_records[i].is_excused
              <=> attendance_records[i].status = "excused"
        /\ attendance_display(attendance_records[i]) = "Excused Absence"
              <=> attendance_records[i].status = "excused"

\* C37: after any sequence of one-at-a-time enrollments, single-photo
\* deletions and enrollment resets, a student's face-enrolled flag is true
\* if and only if the student has at least one active embedding.
C37_EnrolledIffActiveEmbedding ==
    \A s \in DOMAIN students :
        students[s].is_face_enrolled <=> ActiveRows(s, face_encodings) # {}
\* The student deleted one photo and is still enrolled: one embedding of
\* theirs is inactive and another is active.
C37_Witness ==
    /\ result.op = "delete_face_photo"
    /\ result.outcome = "Photo deleted successfully"
    /\ students[Student1].is_face_enrolled
    /\ ActiveRows(Student1, face_encodings) # {}
    /\ \E i \in 1 .. Len(face_encodings) :
          /\ face_encodings[i].student_id = Student1
          /\ ~face_encodings[i].is_active

\* C38: every attendance record whose check-in method is QR code was
\* written by a request that presented a QR token which passed verification
\* for the session: a check-in that creates or changes a record and leaves
\* it with method QR code presented a token that verify_qr_token accepts at
\* that time.
C38_QrRecordNeedsToken ==
    [][\A i \in 1 .. Len(attendance_records') :
          (/\ CheckInRequest
           /\ attendance_records'[i].check_in_method = "qr_code"
           /\ (i > Len(attendance_records)
                 \/ attendance_records'[i] # attendance_records[i]))
          => verify_qr_token(result'.token, SessionId,
                             QR_CODE_EXPIRY_MINUTES, now)]_vars

\* C39: an authenticated face check-in writes or updates a record only for
\* the calling student: an accepted one creates or changes no record but
\* the caller's, and when the caller is not face-enrolled or the recognizer
\* resolves the face to a different student (or to nobody), the request is
\* rejected and no attendance record of any student is created or changed.
C39_FaceCheckInOnlyForCaller ==
    [][/\ Request("check_in_face")
          => /\ result'.outcome # "ok" => attendance_records' = attendance_records
             /\ ~students[result'.student].is_face_enrolled
                   => result'.outcome # "ok"
             /\ \A i \in 1 .. Len(attendance_records') :
                   (i > Len(attendance_records)
                       \/ attendance_records'[i] # attendance_records[i])
                   => attendance_records'[i].student_id = result'.student
       /\ \A st \in Students, img \in OwnerImages :
             (/\ Request("check_in_face")
              /\ result'.student = st
              /\ recognize_face(img, face_encodings).student_id # st
              /\ check_in_with_face(st, SessionId, TRUE, img))
             => /\ result'.outcome # "ok"
                /\ attendance_records' = attendance_records]_vars
\* The first student, marked absent by hand, showed the second student's
\* face: the recognizer matched the second student's embedding, the request
\* was refused as forbidden and the absent record stands as it was.
C39_Witness ==
    /\ result.op = "check_in_face"
    /\ result.outcome = "Forbidden"
    /\ result.student = Student1
    /\ Len(face_encodings) = 2
    /\ face_encodings[2].match_count = 1
    /\ Len(attendance_records) = 1
    /\ attendance_records[1].student_id = Student1
    /\ attendance_records[1].status = "absent"
    /\ attendance_records[1].check_in_method = "manual"

\* C40: after any sequence of enrollments and deactivations, every student
\* who has at least one active embedding has an active embedding marked
\* primary: has_primary of the enrollment progress is true.
C40_ActiveHasPrimary ==
    \A s \in DOMAIN students :
        ActiveRows(s, face_encodings) # {}
            => get_enrollment_progress(s, face_encodings).has_primary

====
